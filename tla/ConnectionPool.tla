--------------------------- MODULE ConnectionPool ---------------------------
(***************************************************************************)
(* The database pool of src/db/adapter.c.  Idle connections are a linked   *)
(* list; a semaphore with Size permits admits the borrowers, and a serial  *)
(* dispatch queue runs the blocks that take the head of the list and put a *)
(* connection back, one statement at a time here.  exec and execParams are *)
(* the callers: borrow, run the query, release.                            *)
(*                                                                         *)
(* NoConnection is C's NULL.  createPostgresPool links the first           *)
(* connection and Size more, one more than there are permits.              *)
(***************************************************************************)
EXTENDS Naturals, FiniteSets

CONSTANTS Threads,       \* threads that run queries
          Connections,   \* the connections createPostgresPool opens
          Size,          \* pool->size, the permits of the semaphore
          NoConnection, NoThread

ASSUME PoolAssumption ==
    /\ IsFiniteSet(Threads) /\ IsFiniteSet(Connections)
    /\ Size \in Nat \ {0}
    /\ Cardinality(Connections) = Size + 1
    /\ NoConnection \notin Connections /\ NoThread \notin Threads

VARIABLES
    head,      \* pool->head
    next,      \* [Connections -> Connections \cup {NoConnection}], c->next
    permits,   \* pool->semaphore
    queue,     \* the thread whose block pool->queue is running, or NoThread
    pc,        \* where each thread is in exec
    current    \* [Threads -> Connections \cup {NoConnection}], borrow's local

vars == <<head, next, permits, queue, pc, current>>

Locations == {"idle",                      \* before borrow, or after release
              "popQueue", "readHead", "setHead",     \* borrow, past the semaphore
              "query",                               \* PQexecParams on current
              "pushQueue", "setNext", "putHead",     \* release
              "signal"}

TypeOK ==
    /\ head \in Connections \cup {NoConnection}
    /\ next \in [Connections -> Connections \cup {NoConnection}]
    /\ permits \in 0..Size
    /\ queue \in Threads \cup {NoThread}
    /\ pc \in [Threads -> Locations]
    /\ current \in [Threads -> Connections \cup {NoConnection}]

\* A NULL-terminated list: st[n] is the head, st[1] the last.
IsList(n, st) ==
    /\ st \in [1..n -> Connections]
    /\ \A i, j \in 1..n : st[i] = st[j] => i = j
    /\ head = IF n = 0 THEN NoConnection ELSE st[n]
    /\ \A i \in 1..n : next[st[i]] = IF i = 1 THEN NoConnection ELSE st[i - 1]

\* createPostgresPool: every connection linked into the list, nobody inside.
Init ==
    /\ head \in Connections
    /\ next \in [Connections -> Connections \cup {NoConnection}]
    /\ \E st \in [1..(Size + 1) -> Connections] : IsList(Size + 1, st)
    /\ permits = Size
    /\ queue = NoThread
    /\ pc = [t \in Threads |-> "idle"]
    /\ current = [t \in Threads |-> NoConnection]

Goto(t, from, to) ==
    /\ pc[t] = from
    /\ pc' = [pc EXCEPT ![t] = to]

\* Faulty variant: the queue is concurrent, as server->serverQueue is.
EnterConcurrent(t) == queue' = t

\* dispatch_sync starts a block when the serial queue runs no other.
Enter(t) == queue = NoThread /\ queue' = t
Leave(t) == queue' = NoThread

-----------------------------------------------------------------------------
(* pool->borrow *)

\* Faulty variant: the wait has a deadline, and borrow goes on after it.
WaitTimesOut(t) ==
    /\ Goto(t, "idle", "popQueue")
    /\ permits' = IF permits > 0 THEN permits - 1 ELSE 0
    /\ UNCHANGED <<head, next, queue, current>>

Wait(t) ==
    /\ Goto(t, "idle", "popQueue")
    /\ permits > 0
    /\ permits' = permits - 1
    /\ UNCHANGED <<head, next, queue, current>>

EnterPop(t) ==
    /\ Goto(t, "popQueue", "readHead")
    /\ Enter(t)
    /\ UNCHANGED <<head, next, permits, current>>

ReadHead(t) ==
    /\ Goto(t, "readHead", "setHead")
    /\ current' = [current EXCEPT ![t] = head]
    /\ UNCHANGED <<head, next, permits, queue>>

\* Faulty variant: the block takes the head and leaves it in the list.
SetHeadNot(t) ==
    /\ Goto(t, "setHead", "query")
    /\ Leave(t)
    /\ UNCHANGED <<head, next, permits, current>>

\* pool->head = current->next: undefined if the list was empty.
SetHead(t) ==
    /\ Goto(t, "setHead", "query")
    /\ current[t] # NoConnection
    /\ head' = next[current[t]]
    /\ Leave(t)
    /\ UNCHANGED <<next, permits, current>>

(* pool->release, after the query *)

EnterPush(t) ==
    /\ Goto(t, "pushQueue", "setNext")
    /\ Enter(t)
    /\ UNCHANGED <<head, next, permits, current>>

Query(t) ==
    /\ Goto(t, "query", "pushQueue")
    /\ UNCHANGED <<head, next, permits, queue, current>>

SetNext(t) ==
    /\ Goto(t, "setNext", "putHead")
    /\ next' = [next EXCEPT ![current[t]] = head]
    /\ UNCHANGED <<head, permits, queue, current>>

\* Faulty variant: the block of release never ends.
PutHeadStays(t) ==
    /\ Goto(t, "putHead", "signal")
    /\ head' = current[t]
    /\ UNCHANGED <<next, permits, queue, current>>

PutHead(t) ==
    /\ Goto(t, "putHead", "signal")
    /\ head' = current[t]
    /\ Leave(t)
    /\ UNCHANGED <<next, permits, current>>

\* The semaphore is signalled last; exec returns and its local is gone.
Signal(t) ==
    /\ Goto(t, "signal", "idle")
    /\ permits' = permits + 1
    /\ current' = [current EXCEPT ![t] = NoConnection]
    /\ UNCHANGED <<head, next, queue>>

-----------------------------------------------------------------------------
Borrow(t)  == Wait(t) \/ EnterPop(t) \/ ReadHead(t) \/ SetHead(t)
Release(t) == EnterPush(t) \/ SetNext(t) \/ PutHead(t) \/ Signal(t)
Exec(t)    == Borrow(t) \/ Query(t) \/ Release(t)

Next == \E t \in Threads : Exec(t)

Spec == Init /\ [][Next]_vars

\* A thread inside exec keeps running, a query ends, and a serial queue runs
\* its blocks in the order they come, so each gets its turn.  Whether a thread
\* calls exec again is its own affair, and so is whom the semaphore admits.
FairSpec ==
    /\ Spec
    /\ \A t \in Threads :
         /\ WF_vars(pc[t] # "idle" /\ Exec(t))
         /\ SF_vars(EnterPop(t)) /\ SF_vars(EnterPush(t))

-----------------------------------------------------------------------------
(* Properties. *)

Inside  == {t \in Threads : pc[t] # "idle"}
Holds(t) == pc[t] \in {"query", "pushQueue", "setNext", "putHead"}
Holders == {t \in Threads : Holds(t)}

\* borrow dereferences pool->head without a test: the head its block reads is
\* a connection, however the blocks of borrowers and releasers interleave.
NeverEmpty ==
    \A t \in Threads : pc[t] = "setHead" => current[t] \in Connections

\* n idle connections st, in the list's order, and every other one held, by
\* one thread.
Layout(n, st) ==
    /\ IsList(n, st)
    /\ n + Cardinality(Holders) = Size + 1
    /\ \A t \in Holders : current[t] \in Connections /\ \A i \in 1..n : st[i] # current[t]
    /\ \A t, u \in Holders : current[t] = current[u] => t = u

\* While a thread's query runs, its connection is no other thread's, and it is
\* not in the list either, so nobody can borrow it: libpq allows one user.
\* The list stays well formed: neither a cycle nor a connection lost.
ListAndHoldersApart ==
    \E n \in 0..(Size + 1) : \E st \in [1..n -> Connections] : Layout(n, st)

\* A release makes room only once the connection is back in the list: permits
\* and idle connections never promise more than the list holds.
PermitsBacked ==
    permits + Cardinality(Inside) = Size /\ Cardinality(Holders) <= Size

\* A block of the queue belongs to the thread that runs it, and nobody moves
\* the head between its statements.
BlocksExclusive ==
    \A t \in Threads :
        /\ pc[t] \in {"readHead", "setHead", "setNext", "putHead"} <=> queue = t
        /\ pc[t] = "setHead" => current[t] = head
        /\ pc[t] = "putHead" => next[current[t]] = head

\* The inductive invariant: with as many connections as threads may be inside
\* and one to spare, the list is never empty for a thread that is still to pop.
IInv == TypeOK /\ BlocksExclusive /\ ListAndHoldersApart /\ PermitsBacked

\* A thread admitted by the semaphore leaves the pool again, and with each that
\* leaves the semaphore opens for those who wait at it.
BorrowersReturn ==
    /\ \A t \in Threads : (pc[t] # "idle") ~> (pc[t] = "idle")
    /\ []<>(permits > 0)

\* The pool implements the abstract one; a connection is held from the moment
\* it leaves the list to the moment it is back in it.
Abstract == INSTANCE AbstractPool WITH
    holding <- [t \in Threads |-> IF Holds(t) THEN current[t] ELSE NoConnection]

ImplementsAbstractPool == Abstract!Spec

=============================================================================
