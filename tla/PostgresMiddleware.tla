------------------------- MODULE PostgresMiddleware -------------------------
(***************************************************************************)
(* postgresMiddlewareFactory of src/middleware/postgres-middleware.c: each *)
(* run of the middleware takes a connection of the pool for the rest of    *)
(* its request, and a cleanup block, run by freeRequest, gives it back.    *)
(* The pool is an array of slots with a `used` flag, behind a semaphore    *)
(* and a serial queue.  A request may pass the middleware several times,   *)
(* once for each matching router that uses it.                             *)
(***************************************************************************)
EXTENDS Naturals, FiniteSets, Sequences

CONSTANTS Requests,   \* requests served, each on a thread of its own
          PoolSize,   \* postgres->poolSize
          Uses,       \* bound: times one request passes the middleware
          NoThread

ASSUME PgAssumption ==
    /\ IsFiniteSet(Requests) /\ NoThread \notin Requests
    /\ PoolSize \in Nat \ {0} /\ Uses \in Nat \ {0}

Slots == 1..PoolSize
NoSlot == 0           \* pg == NULL

VARIABLES
    used,      \* [Slots -> BOOLEAN], postgres->pool[i]->used
    permits,   \* postgres->semaphore
    queue,     \* the request whose block postgres->queue runs, or NoThread
    pc,        \* where each request is
    pg,        \* [Requests -> Slots \cup {NoSlot}], the running middleware's pg
    blocks,    \* [Requests -> Seq(Slots)], the pg of each cleanup block
    ran,       \* [Requests -> Nat], cleanup blocks that have run
    builder    \* [Slots -> Requests \cup {NoThread}], whose arena pg->query is in

vars == <<used, permits, queue, pc, pg, blocks, ran, builder>>

Locations == {"handling",                                  \* outside the middleware
              "waiting", "enterTake", "find", "mark", "build",   \* inside it
              "cleaning", "clear", "signal",               \* freeRequest
              "done"}

TypeOK ==
    /\ used \in [Slots -> BOOLEAN]
    /\ permits \in 0..PoolSize
    /\ queue \in Requests \cup {NoThread}
    /\ pc \in [Requests -> Locations]
    /\ pg \in [Requests -> Slots \cup {NoSlot}]
    /\ blocks \in [Requests -> Seq(Slots)]
    /\ ran \in [Requests -> 0..Uses]
    /\ \A r \in Requests : Len(blocks[r]) <= Uses /\ ran[r] <= Len(blocks[r])
    /\ builder \in [Slots -> Requests \cup {NoThread}]

Init ==
    /\ used = [s \in Slots |-> FALSE]
    /\ permits = PoolSize
    /\ queue = NoThread
    /\ pc = [r \in Requests |-> "handling"]
    /\ pg = [r \in Requests |-> NoSlot]
    /\ blocks = [r \in Requests |-> <<>>] /\ ran = [r \in Requests |-> 0]
    /\ builder = [s \in Slots |-> NoThread]

Goto(r, from, to) ==
    /\ pc[r] = from
    /\ pc' = [pc EXCEPT ![r] = to]

\* Faulty variant: the blocks run on a concurrent queue.
EnterConcurrent(r) == queue' = r

\* dispatch_sync on a queue created with no attribute: one block at a time.
Enter(r) == queue = NoThread /\ queue' = r
Leave    == queue' = NoThread

-----------------------------------------------------------------------------
(* The middleware. *)

\* A router that uses the middleware matches: there is no way back.
Pass(r) ==
    /\ Goto(r, "handling", "waiting")
    /\ Len(blocks[r]) < Uses
    /\ UNCHANGED <<used, permits, queue, pg, blocks, ran, builder>>

\* dispatch_semaphore_wait, for ever.
Wait(r) ==
    /\ Goto(r, "waiting", "enterTake")
    /\ permits > 0
    /\ permits' = permits - 1
    /\ UNCHANGED <<used, queue, pg, blocks, ran, builder>>

EnterTake(r) ==
    /\ Goto(r, "enterTake", "find")
    /\ Enter(r)
    /\ UNCHANGED <<used, permits, pg, blocks, ran, builder>>

\* The scan stops at the first slot that is not in use, and finds none if all
\* are: pg stays NULL, and is dereferenced after the block.
Find(r) ==
    /\ Goto(r, "find", "mark")
    /\ pg' = [pg EXCEPT ![r] =
                IF \A s \in Slots : used[s] THEN NoSlot
                ELSE CHOOSE s \in Slots : ~used[s] /\ \A u \in 1..(s - 1) : used[u]]
    /\ UNCHANGED <<used, permits, queue, blocks, ran, builder>>

Mark(r) ==
    /\ Goto(r, "mark", "build")
    /\ used' = IF pg[r] \in Slots THEN [used EXCEPT ![pg[r]] = TRUE] ELSE used
    /\ Leave
    /\ UNCHANGED <<permits, pg, blocks, ran, builder>>

\* Faulty variant: a builder that is already there is kept.
BuildOnce(r) ==
    /\ Goto(r, "build", "handling")
    /\ pg[r] \in Slots
    /\ builder' = [builder EXCEPT ![pg[r]] = IF @ = NoThread THEN r ELSE @]
    /\ blocks' = [blocks EXCEPT ![r] = Append(@, pg[r])]
    /\ UNCHANGED <<used, permits, queue, pg, ran>>

\* pg->query is built in the request's arena, the cleanup block registered.
Build(r) ==
    /\ Goto(r, "build", "handling")
    /\ pg[r] \in Slots
    /\ builder' = [builder EXCEPT ![pg[r]] = r]
    /\ blocks' = [blocks EXCEPT ![r] = Append(@, pg[r])]
    /\ UNCHANGED <<used, permits, queue, pg, ran>>

-----------------------------------------------------------------------------
(* freeRequest, when the request's handlers have returned. *)

EndHandling(r) ==
    /\ Goto(r, "handling", IF blocks[r] = <<>> THEN "done" ELSE "cleaning")
    /\ UNCHANGED <<used, permits, queue, pg, blocks, ran, builder>>

\* The next cleanup block runs and dispatches its own block.
EnterPut(r) ==
    /\ Goto(r, "cleaning", "clear")
    /\ Enter(r)
    /\ UNCHANGED <<used, permits, pg, blocks, ran, builder>>

\* Faulty variant: the blocks free the slot of the last one.
ClearLast(r) ==
    /\ Goto(r, "clear", "signal")
    /\ used' = [used EXCEPT ![blocks[r][Len(blocks[r])]] = FALSE]
    /\ ran' = [ran EXCEPT ![r] = @ + 1]
    /\ Leave
    /\ UNCHANGED <<permits, pg, blocks, builder>>

\* Faulty variant: the flag stays set.
ClearNot(r) ==
    /\ Goto(r, "clear", "signal")
    /\ ran' = [ran EXCEPT ![r] = @ + 1]
    /\ Leave
    /\ UNCHANGED <<used, permits, pg, blocks, builder>>

Clear(r) ==
    /\ Goto(r, "clear", "signal")
    /\ used' = [used EXCEPT ![blocks[r][ran[r] + 1]] = FALSE]
    /\ ran' = [ran EXCEPT ![r] = @ + 1]
    /\ Leave
    /\ UNCHANGED <<permits, pg, blocks, builder>>

\* Faulty variant: the signal is forgotten.
SignalNot(r) ==
    /\ Goto(r, "signal", IF ran[r] = Len(blocks[r]) THEN "done" ELSE "cleaning")
    /\ UNCHANGED <<used, permits, queue, pg, blocks, ran, builder>>

\* The block signals the semaphore; after the last one the request is gone.
Signal(r) ==
    /\ Goto(r, "signal", IF ran[r] = Len(blocks[r]) THEN "done" ELSE "cleaning")
    /\ permits' = permits + 1
    /\ UNCHANGED <<used, queue, pg, blocks, ran, builder>>

-----------------------------------------------------------------------------
Middleware(r) == Pass(r) \/ Wait(r) \/ EnterTake(r) \/ Find(r) \/ Mark(r) \/ Build(r)
Cleanup(r)    == EndHandling(r) \/ EnterPut(r) \/ Clear(r) \/ Signal(r)
Request(r)    == Middleware(r) \/ Cleanup(r)

Next == \E r \in Requests : Request(r)

Spec == Init /\ [][Next]_vars

\* A request's thread keeps running.  With finitely many requests that is all
\* there is to assume: neither the queue nor the semaphore has to be fair.
FairSpec == Spec /\ \A r \in Requests : WF_vars(Request(r))

-----------------------------------------------------------------------------
(* Properties. *)

\* The slots a request has: from the flag to the clearing of the flag.
HeldBlocks(r) == {k \in 1..Len(blocks[r]) : k > ran[r]}
HeldSlots(r)  == {blocks[r][k] : k \in HeldBlocks(r)}
                    \cup (IF pc[r] = "build" THEN {pg[r]} ELSE {})

\* A permit is taken for each slot in use and for each request on its way to
\* one: the scan of a request that has passed the semaphore finds a free slot,
\* so that pg, dereferenced without a test, is a connection.
SlotFound ==
    \A r \in Requests : pc[r] \in {"mark", "build"} => pg[r] \in Slots

\* The flags say what the requests hold, no more and no less: a slot is not
\* leaked by a request that passed the middleware several times.
FlagsMatchHolders ==
    {s \in Slots : used[s]} = UNION {HeldSlots(r) : r \in Requests}

\* pg->query of a connection that a request holds lives in that request's
\* memory, not in the freed memory of the one that held it before.
BuilderIsHolders ==
    \A r \in Requests : \A k \in HeldBlocks(r) : builder[blocks[r][k]] = r

\* Every request ends, with no more assumed of the semaphore than that it lets
\* somebody pass: as long as the pool outnumbers the connections that requests
\* can hold while they wait for another one.
RequestsEnd ==
    PoolSize > Cardinality(Requests) * (Uses - 1) =>
        \A r \in Requests : <>(pc[r] = "done")

\* The middleware's pool implements the abstract pool, each passage of a
\* request through the middleware being one of its callers.
Abstract == INSTANCE AbstractPool WITH
    Threads <- Requests \X (1..Uses),
    Connections <- Slots,
    Size <- PoolSize,
    NoConnection <- NoSlot,
    holding <- [u \in Requests \X (1..Uses) |->
                  IF u[2] \in HeldBlocks(u[1]) THEN blocks[u[1]][u[2]]
                  ELSE IF pc[u[1]] = "build" /\ u[2] = Len(blocks[u[1]]) + 1 THEN pg[u[1]]
                  ELSE NoSlot]

ImplementsAbstractPool == Abstract!Spec

=============================================================================
