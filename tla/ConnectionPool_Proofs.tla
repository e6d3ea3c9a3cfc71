------------------------ MODULE ConnectionPool_Proofs ------------------------
(***************************************************************************)
(* The database pool of src/db/adapter.c, for any number of threads and    *)
(* any pool size: the inductive invariant, and from it that borrow never   *)
(* finds the list empty, that a connection is never shared, and that the   *)
(* pool implements AbstractPool.                                           *)
(***************************************************************************)
EXTENDS ConnectionPool, FiniteSetTheorems, TLAPS

(***************************************************************************)
(* Counting.  The threads inside and the threads that hold a connection    *)
(* are finite sets; a step moves one thread in or out of either.           *)
(***************************************************************************)

\* Both sets of threads the counts are about are finite, holders are inside.
LEMMA Finiteness ==
    /\ IsFiniteSet(Inside) /\ IsFiniteSet(Holders)
    /\ Cardinality(Inside) \in Nat /\ Cardinality(Holders) \in Nat
    /\ Holders \subseteq Inside
  <1>1. Inside \in SUBSET Threads /\ Holders \in SUBSET Threads /\ Holders \subseteq Inside
    BY DEF Inside, Holders, Holds
  <1>2. IsFiniteSet(Inside) /\ IsFiniteSet(Holders)
    BY <1>1, FS_Subset, PoolAssumption
  <1>3. QED
    BY <1>1, <1>2, FS_CardinalityType

\* A thread that is inside and holds nothing leaves room in the count, so the
\* list is longer than one while it waits or pops.
LEMMA RoomForBorrower ==
    ASSUME NEW t \in Threads, t \in Inside, t \notin Holders
    PROVE  Cardinality(Holders) + 1 <= Cardinality(Inside)
  <1>1. Holders \cup {t} \in SUBSET Inside
    BY Finiteness
  <1>2. Cardinality(Holders \cup {t}) = Cardinality(Holders) + 1
    BY Finiteness, FS_AddElement
  <1>3. Cardinality(Holders \cup {t}) <= Cardinality(Inside)
    BY <1>1, Finiteness, FS_Subset
  <1>4. QED
    BY <1>2, <1>3

\* The initial states satisfy the invariant: every connection is in the list.
LEMMA InitIInv == Init => IInv
  <1> SUFFICES ASSUME Init PROVE IInv
    OBVIOUS
  <1>1. Size + 1 \in 0..(Size + 1)
    BY PoolAssumption
  <1>2. TypeOK
    BY PoolAssumption DEF Init, TypeOK, Locations
  <1>3. BlocksExclusive
    BY PoolAssumption DEF Init, BlocksExclusive
  <1>4. Inside = {} /\ Holders = {}
    BY DEF Init, Inside, Holders, Holds
  <1>5. Cardinality(Inside) = 0 /\ Cardinality(Holders) = 0
    BY <1>4, FS_EmptySet
  <1>6. PermitsBacked
    BY <1>5, PoolAssumption DEF Init, PermitsBacked
  <1>7. ListAndHoldersApart
    <2>1. PICK st \in [1..(Size + 1) -> Connections] : IsList(Size + 1, st)
      BY DEF Init
    <2>2. Size + 1 + Cardinality(Holders) = Size + 1
      BY <1>5, PoolAssumption
    <2>3. Layout(Size + 1, st)
      BY <1>4, <2>1, <2>2 DEF Layout
    <2>4. QED
      BY <1>1, <2>3 DEF ListAndHoldersApart
  <1>8. QED
    BY <1>2, <1>3, <1>6, <1>7 DEF IInv

(***************************************************************************)
(* The list.  A step leaves list and holders alone, takes the head, links  *)
(* a held connection in front of it, or puts that connection back.         *)
(***************************************************************************)

\* A step that moves neither the head, a link nor a holder keeps the list apart.
LEMMA ListUndisturbed ==
    ASSUME ListAndHoldersApart, head' = head, next' = next, Holders' = Holders,
           \A u \in Holders : current'[u] = current[u]
    PROVE  ListAndHoldersApart'
  <1>1. PICK n \in 0..(Size + 1) : \E st \in [1..n -> Connections] : Layout(n, st)
    BY DEF ListAndHoldersApart
  <1>2. PICK st \in [1..n -> Connections] : Layout(n, st)
    BY <1>1
  <1>3. IsList(n, st)'
    BY <1>2 DEF Layout, IsList
  <1>4. Layout(n, st)'
    BY <1>2, <1>3 DEF Layout
  <1>5. QED
    BY <1>4 DEF ListAndHoldersApart

\* Under the invariant a thread that is about to advance the head has read a
\* connection nobody holds: NeverEmpty, and what the refinement needs.
LEMMA HeadIsIdle ==
    ASSUME IInv, NEW t \in Threads, pc[t] = "setHead"
    PROVE  /\ current[t] \in Connections
           /\ \A u \in Holders : current[u] # current[t]
           /\ Cardinality(Holders) < Size
           /\ t \notin Holders
  <1>1. t \in Inside /\ t \notin Holders
    BY DEF Inside, Holders, Holds
  <1>2. Cardinality(Holders) + 1 <= Cardinality(Inside)
    BY <1>1, RoomForBorrower
  <1>3. Cardinality(Inside) <= Size
    BY Finiteness, PoolAssumption DEF IInv, TypeOK, PermitsBacked
  <1>4. PICK n \in 0..(Size + 1) : \E st \in [1..n -> Connections] : Layout(n, st)
    BY DEF IInv, ListAndHoldersApart
  <1>5. PICK st \in [1..n -> Connections] : Layout(n, st)
    BY <1>4
  <1>6. n >= 2
    BY <1>2, <1>3, <1>5, Finiteness, PoolAssumption DEF Layout
  <1>7. current[t] = st[n]
    BY <1>5, <1>6 DEF IInv, BlocksExclusive, Layout, IsList
  <1>8. QED
    BY <1>1, <1>2, <1>3, <1>5, <1>6, <1>7, Finiteness, PoolAssumption DEF Layout

\* Taking the head: the list loses its first connection, the thread gains it.
LEMMA SetHeadKeepsList ==
    ASSUME IInv, NEW t \in Threads, SetHead(t)
    PROVE  ListAndHoldersApart'
  <1>1. PICK n \in 0..(Size + 1) : \E st \in [1..n -> Connections] : Layout(n, st)
    BY DEF IInv, ListAndHoldersApart
  <1>2. PICK st \in [1..n -> Connections] : Layout(n, st)
    BY <1>1
  <1>3. /\ pc[t] = "setHead" /\ current[t] = head /\ current[t] # NoConnection
        /\ head' = next[head] /\ next' = next /\ current' = current
    BY DEF SetHead, Goto, IInv, BlocksExclusive
  <1>4. n \in Nat /\ n # 0 /\ head = st[n]
    BY <1>2, <1>3, PoolAssumption DEF Layout, IsList
  <1>5. Holders' = Holders \cup {t} /\ t \notin Holders
    BY <1>3 DEF SetHead, Goto, Holders, Holds, IInv, TypeOK
  <1>6. Cardinality(Holders') = Cardinality(Holders) + 1
    BY <1>5, Finiteness, FS_AddElement
  <1> DEFINE rest == [i \in 1..(n - 1) |-> st[i]]
  <1>7. n - 1 \in 0..(Size + 1) /\ rest \in [1..(n - 1) -> Connections]
    BY <1>4, PoolAssumption
  <1>8. IsList(n - 1, rest)'
    BY <1>2, <1>3, <1>4 DEF Layout, IsList
  <1>9. (n - 1) + Cardinality(Holders') = Size + 1
    BY <1>2, <1>4, <1>6, Finiteness, PoolAssumption DEF Layout
  <1>10. \A u \in Holders' :
            current'[u] \in Connections /\ \A i \in 1..(n - 1) : rest[i] # current'[u]
    BY <1>2, <1>3, <1>4, <1>5 DEF Layout, IsList
  <1>11. \A u, v \in Holders' : current'[u] = current'[v] => u = v
    BY <1>2, <1>3, <1>4, <1>5 DEF Layout
  <1> HIDE DEF rest
  <1>12. Layout(n - 1, rest)'
    BY <1>8, <1>9, <1>10, <1>11 DEF Layout
  <1>13. QED
    BY <1>7, <1>12 DEF ListAndHoldersApart

\* Putting a connection back: the list gains it, the thread holds it no more.
LEMMA PutHeadKeepsList ==
    ASSUME IInv, NEW t \in Threads, PutHead(t)
    PROVE  ListAndHoldersApart'
  <1>1. PICK n \in 0..(Size + 1) : \E st \in [1..n -> Connections] : Layout(n, st)
    BY DEF IInv, ListAndHoldersApart
  <1>2. PICK st \in [1..n -> Connections] : Layout(n, st)
    BY <1>1
  <1>3. /\ pc[t] = "putHead" /\ next[current[t]] = head
        /\ head' = current[t] /\ next' = next /\ current' = current
    BY DEF PutHead, Goto, IInv, BlocksExclusive
  <1>4. t \in Holders /\ Holders' = Holders \ {t}
    BY <1>3 DEF PutHead, Goto, Holders, Holds, IInv, TypeOK
  <1>5. Cardinality(Holders') = Cardinality(Holders) - 1 /\ Cardinality(Holders) >= 1
    <2>1. Cardinality(Holders \ {t}) = Cardinality(Holders) - 1
      BY <1>4, Finiteness, FS_RemoveElement
    <2>2. Cardinality(Holders) # 0
      BY <1>4, Finiteness, FS_EmptySet
    <2>3. QED
      BY <1>4, <2>1, <2>2, Finiteness
  <1>6. n + 1 \in 0..(Size + 1) /\ current[t] \in Connections
    BY <1>2, <1>4, <1>5, Finiteness, PoolAssumption DEF Layout
  <1>7. PICK more \in [1..(n + 1) -> Connections] :
           \A i \in 1..(n + 1) : more[i] = IF i = n + 1 THEN current[t] ELSE st[i]
    <2> DEFINE longer == [i \in 1..(n + 1) |-> IF i = n + 1 THEN current[t] ELSE st[i]]
    <2>1. longer \in [1..(n + 1) -> Connections]
      BY <1>6
    <2>2. \A i \in 1..(n + 1) : longer[i] = IF i = n + 1 THEN current[t] ELSE st[i]
      OBVIOUS
    <2> HIDE DEF longer
    <2>3. QED
      BY <2>1, <2>2
  <1>8. IsList(n + 1, more)'
    <2>1. \A i, j \in 1..(n + 1) : more[i] = more[j] => i = j
      BY <1>2, <1>4, <1>6, <1>7 DEF Layout, IsList
    <2>2. head' = more[n + 1]
      BY <1>3, <1>6, <1>7
    <2>3. \A i \in 1..(n + 1) :
             next[more[i]] = IF i = 1 THEN NoConnection ELSE more[i - 1]
      BY <1>2, <1>3, <1>6, <1>7 DEF Layout, IsList
    <2>4. QED
      BY <1>3, <1>6, <2>1, <2>2, <2>3 DEF IsList
  <1>9. (n + 1) + Cardinality(Holders') = Size + 1
    BY <1>2, <1>5, Finiteness, PoolAssumption DEF Layout
  <1>10. \A u \in Holders' :
           current'[u] \in Connections /\ \A i \in 1..(n + 1) : more[i] # current'[u]
    BY <1>2, <1>3, <1>4, <1>6, <1>7 DEF Layout
  <1>11. \A u, v \in Holders' : current'[u] = current'[v] => u = v
    BY <1>2, <1>3, <1>4 DEF Layout
  <1>12. Layout(n + 1, more)'
    BY <1>8, <1>9, <1>10, <1>11 DEF Layout
  <1>13. QED
    BY <1>6, <1>12 DEF ListAndHoldersApart

\* Linking a held connection in front of the head disturbs no idle one.
LEMMA SetNextKeepsList ==
    ASSUME IInv, NEW t \in Threads, SetNext(t)
    PROVE  ListAndHoldersApart'
  <1>1. PICK n \in 0..(Size + 1) : \E st \in [1..n -> Connections] : Layout(n, st)
    BY DEF IInv, ListAndHoldersApart
  <1>2. PICK st \in [1..n -> Connections] : Layout(n, st)
    BY <1>1
  <1>3. t \in Holders /\ Holders' = Holders
    BY DEF SetNext, Goto, Holders, Holds, IInv, TypeOK
  <1>4. head' = head /\ current' = current /\ \A i \in 1..n : next'[st[i]] = next[st[i]]
    BY <1>2, <1>3 DEF SetNext, IInv, TypeOK, Layout
  <1>5. IsList(n, st)'
    BY <1>2, <1>4 DEF Layout, IsList
  <1>6. Layout(n, st)'
    BY <1>2, <1>3, <1>4, <1>5 DEF Layout
  <1>7. QED
    BY <1>6 DEF ListAndHoldersApart

(***************************************************************************)
(* The permits.                                                            *)
(***************************************************************************)

\* The semaphore's count and the threads inside it always make up its size.
LEMMA PermitsKept ==
    ASSUME IInv, NEW t \in Threads, Exec(t), TypeOK', ListAndHoldersApart'
    PROVE  PermitsBacked'
  <1>1. permits' + Cardinality(Inside') = Size
    <2>1. CASE Wait(t)
      <3>1. Inside' = Inside \cup {t} /\ t \notin Inside
        BY <2>1 DEF Wait, Goto, Inside, IInv, TypeOK
      <3>2. Cardinality(Inside') = Cardinality(Inside) + 1
        BY <3>1, Finiteness, FS_AddElement
      <3>3. QED
        BY <2>1, <3>2, Finiteness, PoolAssumption DEF Wait, IInv, TypeOK, PermitsBacked
    <2>2. CASE Signal(t)
      <3>1. Inside' = Inside \ {t} /\ t \in Inside
        BY <2>2 DEF Signal, Goto, Inside, IInv, TypeOK
      <3>2. Cardinality(Inside') = Cardinality(Inside) - 1
        BY <3>1, Finiteness, FS_RemoveElement
      <3>3. QED
        BY <2>2, <3>2, Finiteness, PoolAssumption DEF Signal, IInv, TypeOK, PermitsBacked
    <2>3. CASE EnterPop(t) \/ ReadHead(t) \/ SetHead(t) \/ Query(t)
               \/ EnterPush(t) \/ SetNext(t) \/ PutHead(t)
      <3>1. permits' = permits /\ Inside' = Inside
        BY <2>3 DEF EnterPop, ReadHead, SetHead, Query, EnterPush, SetNext, PutHead,
                    Goto, Inside, IInv, TypeOK
      <3>2. QED
        BY <3>1 DEF IInv, PermitsBacked
    <2>4. QED
      BY <2>1, <2>2, <2>3 DEF Exec, Borrow, Release
  <1>2. Cardinality(Holders') <= Size
    <2>1. IsFiniteSet(Inside') /\ Holders' \in SUBSET Inside'
      <3>1. Inside' \in SUBSET Threads /\ Holders' \in SUBSET Inside'
        BY DEF Inside, Holders, Holds
      <3>2. QED
        BY <3>1, FS_Subset, PoolAssumption
    <2>2. Cardinality(Holders') <= Cardinality(Inside')
      BY <2>1, FS_Subset
    <2>3. Cardinality(Inside') \in Nat /\ Cardinality(Holders') \in Nat
      BY <2>1, FS_Subset, FS_CardinalityType
    <2>4. QED
      BY <1>1, <2>2, <2>3, PoolAssumption DEF TypeOK
  <1>3. QED
    BY <1>1, <1>2 DEF PermitsBacked

(***************************************************************************)
(* One step of the pool keeps the invariant.                               *)
(***************************************************************************)

\* Every statement of exec keeps every variable in its type.
LEMMA TypeKept ==
    ASSUME IInv, NEW t \in Threads, Exec(t)
    PROVE  TypeOK'
  <1> USE PoolAssumption DEF IInv, TypeOK, Locations, Goto
  <1>1. CASE Wait(t)
    BY <1>1 DEF Wait
  <1>2. CASE EnterPop(t) \/ EnterPush(t)
    BY <1>2 DEF EnterPop, EnterPush, Enter
  <1>3. CASE ReadHead(t) \/ Query(t)
    BY <1>3 DEF ReadHead, Query
  <1>4. CASE SetHead(t)
    BY <1>4 DEF SetHead, Leave
  <1>5. CASE SetNext(t)
    BY <1>5 DEF SetNext
  <1>6. CASE PutHead(t)
    BY <1>6 DEF PutHead, Leave
  <1>7. CASE Signal(t)
    <2>1. t \in Inside
      BY <1>7 DEF Signal, Inside
    <2>2. Cardinality(Inside) # 0
      BY <2>1, Finiteness, FS_EmptySet
    <2>3. permits + 1 \in 0..Size
      BY <2>2, Finiteness DEF PermitsBacked
    <2>4. QED
      BY <1>7, <2>3 DEF Signal
  <1>8. QED
    BY <1>1, <1>2, <1>3, <1>4, <1>5, <1>6, <1>7 DEF Exec, Borrow, Release

\* Only the thread the queue runs reads or moves the head and the links.
LEMMA BlocksKept ==
    ASSUME IInv, NEW t \in Threads, Exec(t)
    PROVE  BlocksExclusive'
  <1> USE PoolAssumption DEF IInv, TypeOK, BlocksExclusive, Goto
  <1>1. CASE Wait(t) \/ Query(t) \/ Signal(t)
    BY <1>1 DEF Wait, Query, Signal
  <1>2. CASE EnterPop(t) \/ EnterPush(t)
    BY <1>2 DEF EnterPop, EnterPush, Enter
  <1>3. CASE ReadHead(t)
    BY <1>3 DEF ReadHead
  <1>4. CASE SetHead(t) \/ PutHead(t)
    BY <1>4 DEF SetHead, PutHead, Leave
  <1>5. CASE SetNext(t)
    <2>1. current[t] \in Connections
      <3>1. t \in Holders
        BY <1>5 DEF SetNext, Holders, Holds
      <3>2. QED
        BY <3>1 DEF ListAndHoldersApart, Layout
    <2>2. next'[current[t]] = head
      BY <1>5, <2>1 DEF SetNext
    <2>3. \A u \in Threads : u # t => pc[u] \notin {"readHead", "setHead", "setNext", "putHead"}
      BY <1>5 DEF SetNext
    <2>4. QED
      BY <1>5, <2>2, <2>3 DEF SetNext
  <1>6. QED
    BY <1>1, <1>2, <1>3, <1>4, <1>5 DEF Exec, Borrow, Release

\* The list and the held connections stay apart, statement by statement.
LEMMA ListKept ==
    ASSUME IInv, NEW t \in Threads, Exec(t)
    PROVE  ListAndHoldersApart'
  <1>1. CASE Wait(t) \/ EnterPop(t) \/ ReadHead(t) \/ Query(t) \/ EnterPush(t) \/ Signal(t)
    <2>1. head' = head /\ next' = next
      BY <1>1 DEF Wait, EnterPop, ReadHead, Query, EnterPush, Signal
    <2>2. Holders' = Holders
      BY <1>1 DEF Wait, EnterPop, ReadHead, Query, EnterPush, Signal, Goto,
                  Holders, Holds, IInv, TypeOK
    <2>3. \A u \in Holders : current'[u] = current[u]
      BY <1>1 DEF Wait, EnterPop, ReadHead, Query, EnterPush, Signal, Goto,
                  Holders, Holds, IInv, TypeOK
    <2>4. QED
      BY <2>1, <2>2, <2>3, ListUndisturbed DEF IInv
  <1>2. QED
    BY <1>1, SetHeadKeepsList, SetNextKeepsList, PutHeadKeepsList
       DEF Exec, Borrow, Release

\* The invariant is inductive.
LEMMA StepIInv == IInv /\ [Next]_vars => IInv'
  <1> SUFFICES ASSUME IInv, [Next]_vars PROVE IInv'
    OBVIOUS
  <1>1. CASE UNCHANGED vars
    <2>1. Holders' = Holders /\ Inside' = Inside
      BY <1>1 DEF vars, Holders, Holds, Inside
    <2>2. ListAndHoldersApart'
      BY <1>1, <2>1, ListUndisturbed DEF vars, IInv
    <2>3. QED
      BY <1>1, <2>1, <2>2 DEF vars, IInv, TypeOK, BlocksExclusive, PermitsBacked
  <1>2. ASSUME NEW t \in Threads, Exec(t) PROVE IInv'
    <2>1. TypeOK' /\ BlocksExclusive' /\ ListAndHoldersApart'
      BY <1>2, TypeKept, BlocksKept, ListKept
    <2>2. PermitsBacked'
      BY <1>2, <2>1, PermitsKept
    <2>3. QED
      BY <2>1, <2>2 DEF IInv
  <1>3. QED
    BY <1>1, <1>2 DEF Next

(***************************************************************************)
(* The theorems.                                                           *)
(***************************************************************************)

\* The inductive invariant holds in every reachable state of the pool.
THEOREM PoolInvariant == Spec => []IInv
  <1>1. QED
    BY InitIInv, StepIInv, PTL DEF Spec

\* The variables keep their types.
THEOREM PoolTypeOK == Spec => []TypeOK
  <1>1. IInv => TypeOK
    BY DEF IInv
  <1>2. QED
    BY <1>1, PoolInvariant, PTL

\* borrow's unchecked dereference of pool->head never meets NULL.
THEOREM PoolNeverEmpty == Spec => []NeverEmpty
  <1>1. IInv => NeverEmpty
    BY HeadIsIdle DEF NeverEmpty
  <1>2. QED
    BY <1>1, PoolInvariant, PTL

\* No connection is held twice, or held and idle at once, or lost.
THEOREM PoolListAndHoldersApart == Spec => []ListAndHoldersApart
  <1>1. IInv => ListAndHoldersApart
    BY DEF IInv
  <1>2. QED
    BY <1>1, PoolInvariant, PTL

\* Permits and threads inside add up; at most Size connections are held.
THEOREM PoolPermitsBacked == Spec => []PermitsBacked
  <1>1. IInv => PermitsBacked
    BY DEF IInv
  <1>2. QED
    BY <1>1, PoolInvariant, PTL

(***************************************************************************)
(* Refinement.  A thread that advances the head takes its connection in    *)
(* the abstract pool, one that puts it back gives it back, and every other *)
(* statement is a stuttering step.                                         *)
(***************************************************************************)

\* The refinement mapping: what the abstract pool sees each thread hold.
Held == [t \in Threads |-> IF Holds(t) THEN current[t] ELSE NoConnection]

\* Abstract holders are the concrete ones: what a holder has is a connection.
LEMMA SameHolders == IInv => Abstract!Holders = Holders
  <1>1. ASSUME ListAndHoldersApart
        PROVE  \A t \in Holders : current[t] \in Connections
    BY <1>1 DEF ListAndHoldersApart, Layout
  <1>2. QED
    BY <1>1, PoolAssumption DEF IInv, Abstract!Holders, Holders

\* A thread that takes the head of the list takes an unheld connection.
LEMMA SetHeadTakes ==
    ASSUME IInv, NEW t \in Threads, SetHead(t)
    PROVE  Abstract!Take(t)
  <1>1. /\ current[t] \in Connections /\ \A u \in Holders : current[u] # current[t]
        /\ Cardinality(Holders) < Size /\ t \notin Holders
    BY HeadIsIdle DEF SetHead, Goto
  <1>2. Held[t] = NoConnection
    BY <1>1 DEF Held, Holders
  <1>3. Abstract!Cardinality(Abstract!Holders) < Size
    <2>1. Abstract!Cardinality(Abstract!Holders) = Cardinality(Abstract!Holders)
      BY DEF Abstract!Cardinality, Cardinality
    <2>2. QED
      BY <1>1, <2>1, SameHolders
  <1>4. \A u \in Threads : Held[u] # current[t]
    BY <1>1, PoolAssumption DEF Held, Holders
  <1>5. Held' = [Held EXCEPT ![t] = current[t]]
    BY DEF Held, Holds, SetHead, Goto, IInv, TypeOK
  <1>6. \E c \in Connections :
           (\A u \in Threads : Held[u] # c) /\ Held' = [Held EXCEPT ![t] = c]
    BY <1>1, <1>4, <1>5
  <1>7. QED
    BY <1>2, <1>3, <1>6 DEF Abstract!Take, Held

\* A thread that puts its connection at the head gives it back.
LEMMA PutHeadGivesBack ==
    ASSUME IInv, NEW t \in Threads, PutHead(t)
    PROVE  Abstract!GiveBack(t)
  <1>1. t \in Holders
    BY DEF PutHead, Goto, Holders, Holds
  <1>2. current[t] \in Connections
    BY <1>1 DEF IInv, ListAndHoldersApart, Layout
  <1>3. Held[t] # NoConnection
    BY <1>1, <1>2, PoolAssumption DEF Held, Holders
  <1>4. Held' = [Held EXCEPT ![t] = NoConnection]
    BY DEF Held, Holds, PutHead, Goto, IInv, TypeOK
  <1>5. QED
    BY <1>3, <1>4 DEF Abstract!GiveBack, Held

\* The other statements change nobody's connection.
LEMMA OthersStutter ==
    ASSUME IInv, NEW t \in Threads,
           Wait(t) \/ EnterPop(t) \/ ReadHead(t) \/ Query(t)
           \/ EnterPush(t) \/ SetNext(t) \/ Signal(t)
    PROVE  Held' = Held
  BY DEF Wait, EnterPop, ReadHead, Query, EnterPush, SetNext, Signal, Goto,
         Held, Holds, IInv, TypeOK

\* The linked list, the queue and the semaphore implement the abstract pool.
THEOREM PoolImplementsAbstract == Spec => ImplementsAbstractPool
  <1>1. Init => Abstract!Init
    BY DEF Init, Abstract!Init, Holds
  <1>2. IInv /\ [Next]_vars => [Abstract!Next]_Held
    <2> SUFFICES ASSUME IInv, [Next]_vars PROVE [Abstract!Next]_Held
      OBVIOUS
    <2>1. CASE UNCHANGED vars
      BY <2>1 DEF vars, Held, Holds
    <2>2. ASSUME NEW t \in Threads, Exec(t) PROVE [Abstract!Next]_Held
      BY <2>2, SetHeadTakes, PutHeadGivesBack, OthersStutter
         DEF Exec, Borrow, Release, Abstract!Next
    <2>3. QED
      BY <2>1, <2>2 DEF Next
  <1>3. QED
    BY <1>1, <1>2, PoolInvariant, PTL DEF Spec, ImplementsAbstractPool, Abstract!Spec, Held

=============================================================================
