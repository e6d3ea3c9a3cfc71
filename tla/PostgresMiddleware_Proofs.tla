---------------------- MODULE PostgresMiddleware_Proofs ----------------------
(***************************************************************************)
(* Theorems about PostgresMiddleware, for any number of requests, any pool *)
(* size and any number of passages: a permit always leads to a free slot,  *)
(* the flags are exactly the slots held, a builder is its holder's, and    *)
(* the flags, the semaphore and the queue implement AbstractPool.          *)
(***************************************************************************)
EXTENDS PostgresMiddleware, FiniteSetTheorems, WellFoundedInduction, TLAPS

-----------------------------------------------------------------------------
(* The invariant. *)

Passages == Requests \X (1..Uses)

\* The slot the k-th passage of r holds: the refinement mapping.
HeldBy(r, k) ==
    IF k \in HeldBlocks(r) THEN blocks[r][k]
    ELSE IF pc[r] = "build" /\ k = Len(blocks[r]) + 1 THEN pg[r]
    ELSE NoSlot

Held == [u \in Passages |-> HeldBy(u[1], u[2])]

UsedSlots == {s \in Slots : used[s]}

\* Requests with a permit and no slot in use: not yet, or no more.
Between == {r \in Requests : pc[r] \in {"enterTake", "find", "mark", "signal"}}

\* Permits, slots in use and requests between the two add up.
PermitsBacked == permits + Cardinality(UsedSlots) + Cardinality(Between) = PoolSize

\* Where a request is tells what it may still do.
Progress ==
    \A r \in Requests :
        /\ pc[r] \in {"waiting", "enterTake", "find", "mark", "build"} => Len(blocks[r]) < Uses
        /\ pc[r] \in {"handling", "waiting", "enterTake", "find", "mark", "build"} => ran[r] = 0
        /\ pc[r] \in {"cleaning", "clear"} => ran[r] < Len(blocks[r])
        /\ pc[r] \in {"find", "mark", "clear"} <=> queue = r

\* A slot that was found is free until it is marked, and a slot that was marked
\* is a slot.
Found ==
    \A r \in Requests :
        /\ pc[r] = "mark" => pg[r] \in Slots /\ ~used[pg[r]]
        /\ pc[r] = "build" => pg[r] \in Slots

\* A slot in use is held, and by one passage of one request only.
UsedIsHeld ==
    \A s \in Slots : used[s] <=> \E r \in Requests : \E k \in 1..Uses : HeldBy(r, k) = s

HeldOnce ==
    \A r, q \in Requests : \A j, k \in 1..Uses :
        HeldBy(r, j) \in Slots /\ HeldBy(r, j) = HeldBy(q, k) => r = q /\ j = k

IInv == TypeOK /\ Progress /\ Found /\ UsedIsHeld /\ HeldOnce /\ PermitsBacked /\ BuilderIsHolders

-----------------------------------------------------------------------------
(* Counting. *)

\* The sets the counts are about are finite.
LEMMA Finiteness ==
    /\ IsFiniteSet(UsedSlots) /\ IsFiniteSet(Between)
    /\ Cardinality(UsedSlots) \in Nat /\ Cardinality(Between) \in Nat
    /\ IsFiniteSet(Slots) /\ Cardinality(Slots) = PoolSize
  <1>1. IsFiniteSet(Slots) /\ Cardinality(Slots) = PoolSize
    BY FS_Interval, PgAssumption DEF Slots
  <1>2. UsedSlots \in SUBSET Slots /\ Between \in SUBSET Requests
    BY DEF UsedSlots, Between
  <1>3. IsFiniteSet(UsedSlots) /\ IsFiniteSet(Between)
    BY <1>1, <1>2, FS_Subset, PgAssumption
  <1>4. QED
    BY <1>1, <1>3, FS_CardinalityType

\* While a request has a permit and no slot, a slot is free.
LEMMA RoomForOne ==
    ASSUME PermitsBacked, permits \in Nat, NEW r \in Between
    PROVE  Cardinality(UsedSlots) < PoolSize
  <1>1. Cardinality(Between) # 0
    BY Finiteness, FS_EmptySet
  <1>2. QED
    BY <1>1, Finiteness, PgAssumption DEF PermitsBacked

\* A request whose block scans the slots finds a free one.
LEMMA FreeSlot ==
    ASSUME IInv, NEW r \in Requests, pc[r] = "find"
    PROVE  \E s \in Slots : ~used[s]
  <1>1. r \in Between
    BY DEF Between
  <1>2. Cardinality(UsedSlots) < PoolSize
    BY <1>1, RoomForOne DEF IInv, TypeOK
  <1>3. UsedSlots # Slots
    BY <1>2, Finiteness, PgAssumption
  <1>4. QED
    BY <1>3 DEF UsedSlots

\* The scan of a request that has a permit ends at a free slot.
LEMMA FindsFree ==
    ASSUME IInv, NEW r \in Requests, Find(r)
    PROVE  /\ pg' = [pg EXCEPT ![r] = pg'[r]]
           /\ pg'[r] \in Slots /\ ~used[pg'[r]]
  <1> DEFINE First(s) == ~used[s] /\ \A u \in 1..(s - 1) : used[u]
             Free == {s \in Slots : ~used[s]}
  <1>1. \E s \in Slots : ~used[s]
    BY FreeSlot DEF Find, Goto
  <1>2. PICK s \in Free : \A u \in Free : s <= u
    <2> DEFINE Upto == {1..f : f \in Free}
    <2>1. Free \in SUBSET Slots /\ Free # {} /\ Slots \subseteq Nat \ {0}
      BY <1>1, PgAssumption DEF Slots
    <2>2. \A f \in Free : 1..f \in FiniteSubsetsOf(Slots)
      BY <2>1, FS_Interval, PgAssumption DEF Slots, FiniteSubsetsOf
    <2>3. Upto \subseteq FiniteSubsetsOf(Slots) /\ Upto # {}
      BY <2>1, <2>2
    <2>4. PICK least \in Upto : \A other \in Upto : <<other, least>> \notin StrictSubsetOrdering(Slots)
      BY <2>3, FS_StrictSubsetOrderingWellFounded, WFMin
    <2>5. PICK f \in Free : least = 1..f
      OBVIOUS
    <2>6. ASSUME NEW u \in Free, u < f
          PROVE  FALSE
      <3>1. 1..u \in SUBSET (1..f) /\ 1..u # 1..f /\ 1..u \in SUBSET Slots /\ 1..f \in SUBSET Slots
        BY <2>1, <2>6, PgAssumption DEF Slots
      <3>2. <<1..u, 1..f>> \in StrictSubsetOrdering(Slots)
        BY <3>1 DEF StrictSubsetOrdering
      <3>3. QED
        BY <2>4, <2>5, <3>2
    <2>7. QED
      BY <2>1, <2>6
  <1>3. s \in Slots /\ First(s)
    BY <1>2, PgAssumption DEF Slots
  <1>4. (CHOOSE x \in Slots : First(x)) \in Slots /\ ~used[CHOOSE x \in Slots : First(x)]
    <2>1. LET c == CHOOSE x \in Slots : First(x) IN c \in Slots /\ First(c)
      BY <1>3
    <2>2. QED
      BY <2>1
  <1> HIDE DEF First
  <1>5. pg' = [pg EXCEPT ![r] = CHOOSE x \in Slots : First(x)]
    BY <1>1 DEF Find, First
  <1>6. pg'[r] = CHOOSE x \in Slots : First(x)
    BY <1>5 DEF IInv, TypeOK
  <1>7. QED
    BY <1>4, <1>5, <1>6

-----------------------------------------------------------------------------
(* What a step does to the slots held. *)

\* Only marking, building and clearing change what a request holds.
LEMMA HeldUndisturbed ==
    ASSUME IInv, NEW r \in Requests,
           Pass(r) \/ Wait(r) \/ EnterTake(r) \/ Find(r)
           \/ EndHandling(r) \/ EnterPut(r) \/ Signal(r)
    PROVE  \A q \in Requests : \A k \in 1..Uses : HeldBy(q, k)' = HeldBy(q, k)
  <1>1. blocks' = blocks /\ ran' = ran
    BY DEF Pass, Wait, EnterTake, Find, EndHandling, EnterPut, Signal
  <1>2. \A q \in Requests : (pc'[q] = "build" <=> pc[q] = "build")
    BY DEF Pass, Wait, EnterTake, Find, EndHandling, EnterPut, Signal, Goto, IInv, TypeOK
  <1>3. \A q \in Requests : pc[q] = "build" => pg'[q] = pg[q]
    BY DEF Pass, Wait, EnterTake, Find, EndHandling, EnterPut, Signal, Goto, IInv, TypeOK
  <1>4. QED
    BY <1>1, <1>2, <1>3 DEF HeldBy, HeldBlocks

\* Marking: the request holds the slot it found, as its next passage.
LEMMA MarkHolds ==
    ASSUME IInv, NEW r \in Requests, Mark(r)
    PROVE  LET n == Len(blocks[r]) + 1
           IN  /\ n \in 1..Uses /\ pg[r] \in Slots /\ ~used[pg[r]]
               /\ used' = [used EXCEPT ![pg[r]] = TRUE]
               /\ HeldBy(r, n) = NoSlot
               /\ \A q \in Requests : \A k \in 1..Uses :
                     HeldBy(q, k)' = IF q = r /\ k = n THEN pg[r] ELSE HeldBy(q, k)
  <1>1. /\ pc[r] = "mark" /\ pc' = [pc EXCEPT ![r] = "build"] /\ pg' = pg
        /\ blocks' = blocks /\ ran' = ran
    BY DEF Mark, Goto
  <1>2. /\ Len(blocks[r]) \in Nat /\ Len(blocks[r]) < Uses /\ ran[r] = 0
        /\ pg[r] \in Slots /\ ~used[pg[r]]
    BY <1>1 DEF IInv, TypeOK, Progress, Found
  <1>3. Len(blocks[r]) + 1 \in 1..Uses
    BY <1>2, PgAssumption
  <1>4. used' = [used EXCEPT ![pg[r]] = TRUE]
    BY <1>2 DEF Mark
  <1>5. Len(blocks[r]) + 1 \notin HeldBlocks(r)
    BY <1>2 DEF HeldBlocks
  <1>6. HeldBy(r, Len(blocks[r]) + 1) = NoSlot
    BY <1>1, <1>5 DEF HeldBy
  <1>7. ASSUME NEW q \in Requests, NEW k \in 1..Uses
        PROVE  HeldBy(q, k)' = IF q = r /\ k = Len(blocks[r]) + 1 THEN pg[r] ELSE HeldBy(q, k)
    <2>1. HeldBlocks(q)' = HeldBlocks(q)
      BY <1>1 DEF HeldBlocks
    <2>2. pc'[q] = IF q = r THEN "build" ELSE pc[q]
      BY <1>1 DEF IInv, TypeOK
    <2>3. QED
      BY <1>1, <1>5, <2>1, <2>2 DEF HeldBy
  <1>8. QED
    BY <1>2, <1>3, <1>4, <1>6, <1>7

\* Building hands the slot from the middleware's variable to a cleanup block.
LEMMA BuildHolds ==
    ASSUME IInv, NEW r \in Requests, Build(r)
    PROVE  /\ \A q \in Requests : \A k \in 1..Uses : HeldBy(q, k)' = HeldBy(q, k)
           /\ Len(blocks[r]) + 1 \in 1..Uses
           /\ HeldBy(r, Len(blocks[r]) + 1) = pg[r]
  <1>1. /\ pc[r] = "build" /\ pc' = [pc EXCEPT ![r] = "handling"] /\ pg' = pg /\ pg[r] \in Slots
        /\ blocks' = [blocks EXCEPT ![r] = Append(@, pg[r])] /\ ran' = ran
    BY DEF Build, Goto
  <1>2. /\ Len(blocks[r]) \in Nat /\ Len(blocks[r]) < Uses /\ ran[r] = 0
        /\ blocks[r] \in Seq(Slots)
    BY <1>1 DEF IInv, TypeOK, Progress
  <1>3. Len(blocks[r]) + 1 \notin HeldBlocks(r)
    BY <1>2 DEF HeldBlocks
  <1>4. HeldBy(r, Len(blocks[r]) + 1) = pg[r]
    BY <1>1, <1>3 DEF HeldBy
  <1>5. ASSUME NEW q \in Requests, NEW k \in 1..Uses
        PROVE  HeldBy(q, k)' = HeldBy(q, k)
    <2>1. CASE q # r
      <3>1. blocks'[q] = blocks[q] /\ ran'[q] = ran[q] /\ pc'[q] = pc[q] /\ pg'[q] = pg[q]
        BY <1>1, <2>1 DEF IInv, TypeOK
      <3>2. QED
        BY <3>1 DEF HeldBy, HeldBlocks
    <2>2. CASE q = r
      <3>1. blocks'[r] = Append(blocks[r], pg[r]) /\ pc'[r] = "handling" /\ ran'[r] = 0
        BY <1>1, <1>2 DEF IInv, TypeOK
      <3>2. /\ Len(blocks'[r]) = Len(blocks[r]) + 1
            /\ \A i \in 1..Len(blocks[r]) : blocks'[r][i] = blocks[r][i]
            /\ blocks'[r][Len(blocks[r]) + 1] = pg[r]
        BY <1>1, <1>2, <3>1
      <3>3. HeldBlocks(r)' = HeldBlocks(r) \cup {Len(blocks[r]) + 1}
        BY <1>2, <3>1, <3>2 DEF HeldBlocks
      <3>4. CASE k = Len(blocks[r]) + 1
        BY <1>4, <2>2, <3>2, <3>3, <3>4 DEF HeldBy
      <3>5. CASE k # Len(blocks[r]) + 1 /\ k \in HeldBlocks(r)
        BY <2>2, <3>2, <3>3, <3>5 DEF HeldBy, HeldBlocks
      <3>6. CASE k # Len(blocks[r]) + 1 /\ k \notin HeldBlocks(r)
        BY <2>2, <3>1, <3>3, <3>6 DEF HeldBy
      <3>7. QED
        BY <3>4, <3>5, <3>6
    <2>3. QED
      BY <2>1, <2>2
  <1>6. QED
    BY <1>2, <1>4, <1>5, PgAssumption

\* Clearing: the passage of the block that runs holds nothing any more.
LEMMA ClearReleases ==
    ASSUME IInv, NEW r \in Requests, Clear(r)
    PROVE  LET n == ran[r] + 1
           IN  /\ n \in 1..Uses /\ HeldBy(r, n) = blocks[r][n] /\ blocks[r][n] \in Slots
               /\ \A q \in Requests : \A k \in 1..Uses :
                     HeldBy(q, k)' = IF q = r /\ k = n THEN NoSlot ELSE HeldBy(q, k)
  <1>1. /\ pc[r] = "clear" /\ pc' = [pc EXCEPT ![r] = "signal"] /\ pg' = pg
        /\ blocks' = blocks /\ ran' = [ran EXCEPT ![r] = @ + 1]
    BY DEF Clear, Goto
  <1>2. /\ Len(blocks[r]) \in Nat /\ ran[r] \in Nat /\ ran[r] < Len(blocks[r])
        /\ Len(blocks[r]) <= Uses /\ blocks[r] \in Seq(Slots)
    BY <1>1 DEF IInv, TypeOK, Progress
  <1>3. ran[r] + 1 \in 1..Uses /\ ran[r] + 1 \in HeldBlocks(r) /\ blocks[r][ran[r] + 1] \in Slots
    BY <1>2, PgAssumption DEF HeldBlocks
  <1>4. HeldBy(r, ran[r] + 1) = blocks[r][ran[r] + 1]
    BY <1>3 DEF HeldBy
  <1>5. ASSUME NEW q \in Requests, NEW k \in 1..Uses
        PROVE  HeldBy(q, k)' = IF q = r /\ k = ran[r] + 1 THEN NoSlot ELSE HeldBy(q, k)
    <2>1. CASE q # r
      <3>1. blocks'[q] = blocks[q] /\ ran'[q] = ran[q] /\ pc'[q] = pc[q] /\ pg'[q] = pg[q]
        BY <1>1, <2>1 DEF IInv, TypeOK
      <3>2. QED
        BY <2>1, <3>1 DEF HeldBy, HeldBlocks
    <2>2. CASE q = r
      <3>1. blocks'[r] = blocks[r] /\ pc'[r] = "signal" /\ ran'[r] = ran[r] + 1
        BY <1>1 DEF IInv, TypeOK
      <3>2. HeldBlocks(r)' = HeldBlocks(r) \ {ran[r] + 1}
        BY <1>2, <3>1 DEF HeldBlocks
      <3>3. QED
        BY <1>1, <1>3, <2>2, <3>1, <3>2 DEF HeldBy
    <2>3. QED
      BY <2>1, <2>2
  <1>6. QED
    BY <1>3, <1>4, <1>5

-----------------------------------------------------------------------------
(* One step keeps the invariant. *)

\* At first every slot is free and every permit there.
LEMMA InitInv == Init => IInv
  <1> SUFFICES ASSUME Init PROVE IInv
    OBVIOUS
  <1>1. TypeOK /\ Progress /\ Found /\ BuilderIsHolders
    BY PgAssumption DEF Init, TypeOK, Locations, Progress, Found, BuilderIsHolders, HeldBlocks
  <1>2. \A r \in Requests : \A k \in 1..Uses : HeldBy(r, k) = NoSlot
    BY DEF Init, HeldBy, HeldBlocks
  <1>3. UsedIsHeld /\ HeldOnce
    BY <1>2 DEF Init, UsedIsHeld, HeldOnce, Slots, NoSlot
  <1>4. UsedSlots = {} /\ Between = {}
    BY DEF Init, UsedSlots, Between
  <1>5. PermitsBacked
    BY <1>4, FS_EmptySet, PgAssumption DEF Init, PermitsBacked
  <1>6. QED
    BY <1>1, <1>3, <1>5 DEF IInv

\* Every statement of a request keeps every variable in its type.
LEMMA TypeKept ==
    ASSUME IInv, NEW r \in Requests, Request(r)
    PROVE  TypeOK'
  <1> USE PgAssumption DEF TypeOK, Locations, Goto
  <1>1. TypeOK
    BY DEF IInv
  <1>2. CASE Pass(r)
    BY <1>1, <1>2 DEF Pass
  <1>3. CASE Wait(r)
    BY <1>1, <1>3 DEF Wait
  <1>4. CASE EnterTake(r) \/ EnterPut(r)
    BY <1>1, <1>4 DEF EnterTake, EnterPut, Enter
  <1>5. CASE Find(r)
    <2>1. pg' = [pg EXCEPT ![r] = pg'[r]] /\ pg'[r] \in Slots
      BY <1>5, FindsFree
    <2>2. QED
      BY <1>1, <1>5, <2>1 DEF Find
  <1>6. CASE Mark(r)
    <2>1. used' \in [Slots -> BOOLEAN]
      BY <1>1, <1>6 DEF Mark
    <2>2. QED
      BY <1>1, <1>6, <2>1 DEF Mark, Leave
  <1>7. CASE Build(r)
    <2>1. pg[r] \in Slots /\ Len(blocks[r]) + 1 \in 1..Uses
      BY <1>7, BuildHolds DEF Build
    <2>2. blocks[r] \in Seq(Slots) /\ Append(blocks[r], pg[r]) \in Seq(Slots)
          /\ Len(Append(blocks[r], pg[r])) = Len(blocks[r]) + 1
      BY <1>1, <2>1
    <2>3. blocks' = [blocks EXCEPT ![r] = Append(blocks[r], pg[r])]
      BY <1>7 DEF Build
    <2>4. blocks' \in [Requests -> Seq(Slots)]
      BY <1>1, <2>2, <2>3
    <2>5. \A q \in Requests : Len(blocks'[q]) <= Uses /\ ran'[q] <= Len(blocks'[q])
      BY <1>1, <1>7, <2>1, <2>2, <2>3 DEF Build
    <2>6. QED
      BY <1>1, <1>7, <2>1, <2>4, <2>5 DEF Build
  <1>8. CASE EndHandling(r)
    BY <1>1, <1>8 DEF EndHandling
  <1>9. CASE Clear(r)
    <2>1. ran[r] + 1 \in 1..Uses /\ blocks[r][ran[r] + 1] \in Slots
      BY <1>9, ClearReleases
    <2>2. ran[r] < Len(blocks[r])
      BY <1>9 DEF Clear, IInv, Progress
    <2>3. \A q \in Requests : Len(blocks'[q]) <= Uses /\ ran'[q] <= Len(blocks'[q])
      BY <1>1, <1>9, <2>2 DEF Clear
    <2>4. QED
      BY <1>1, <1>9, <2>1, <2>3 DEF Clear, Leave
  <1>10. CASE Signal(r)
    <2>1. r \in Between
      BY <1>10 DEF Signal, Between
    <2>2. Cardinality(Between) # 0
      BY <2>1, Finiteness, FS_EmptySet
    <2>3. permits + 1 \in 0..PoolSize
      BY <1>1, <2>2, Finiteness DEF IInv, PermitsBacked
    <2>4. QED
      BY <1>1, <1>10, <2>3 DEF Signal
  <1>11. QED
    BY <1>2, <1>3, <1>4, <1>5, <1>6, <1>7, <1>8, <1>9, <1>10
       DEF Request, Middleware, Cleanup

\* A request's place goes on telling what it has done; the queue runs one block.
LEMMA ProgressKept ==
    ASSUME IInv, NEW r \in Requests, Request(r)
    PROVE  Progress'
  <1> USE PgAssumption DEF Progress, Goto
  <1>1. TypeOK /\ Progress /\ queue \in Requests \cup {NoThread}
    BY DEF IInv, TypeOK
  <1>2. CASE Pass(r) \/ Wait(r)
    BY <1>1, <1>2 DEF Pass, Wait, TypeOK
  <1>3. CASE EnterTake(r) \/ EnterPut(r)
    BY <1>1, <1>3 DEF EnterTake, EnterPut, Enter, TypeOK
  <1>4. CASE Find(r)
    BY <1>1, <1>4 DEF Find, TypeOK
  <1>5. CASE Mark(r)
    BY <1>1, <1>5 DEF Mark, Leave, TypeOK
  <1>6. CASE Build(r)
    BY <1>1, <1>6 DEF Build, TypeOK
  <1>7. CASE EndHandling(r)
    <2>1. Len(blocks[r]) \in Nat /\ (blocks[r] # <<>> => Len(blocks[r]) > 0) /\ ran[r] = 0
      BY <1>1, <1>7 DEF EndHandling, TypeOK
    <2>2. QED
      BY <1>1, <1>7, <2>1 DEF EndHandling, TypeOK
  <1>8. CASE Clear(r)
    BY <1>1, <1>8 DEF Clear, Leave, TypeOK
  <1>9. CASE Signal(r)
    <2>1. Len(blocks[r]) \in Nat /\ ran[r] \in Nat /\ ran[r] <= Len(blocks[r])
      BY <1>1 DEF TypeOK
    <2>2. QED
      BY <1>1, <1>9, <2>1 DEF Signal, TypeOK
  <1>10. QED
    BY <1>2, <1>3, <1>4, <1>5, <1>6, <1>7, <1>8, <1>9
       DEF Request, Middleware, Cleanup

\* A found slot stays free until it is marked: only the queue's block marks.
LEMMA FoundKept ==
    ASSUME IInv, NEW r \in Requests, Request(r)
    PROVE  Found'
  <1> USE DEF Found, Goto
  <1>1. TypeOK /\ Found /\ Progress
    BY DEF IInv
  <1>2. CASE Pass(r) \/ Wait(r) \/ EnterTake(r) \/ EndHandling(r) \/ EnterPut(r) \/ Signal(r)
    BY <1>1, <1>2 DEF Pass, Wait, EnterTake, EndHandling, EnterPut, Signal, TypeOK
  <1>3. CASE Find(r)
    <2>1. pg' = [pg EXCEPT ![r] = pg'[r]] /\ pg'[r] \in Slots /\ ~used[pg'[r]]
      BY <1>3, FindsFree
    <2>2. QED
      BY <1>1, <1>3, <2>1 DEF Find, TypeOK
  <1>4. CASE Mark(r)
    <2>1. \A q \in Requests : q # r => pc[q] # "mark"
      BY <1>1, <1>4 DEF Mark, Progress
    <2>2. pg[r] \in Slots /\ pg' = pg /\ pc' = [pc EXCEPT ![r] = "build"]
      BY <1>1, <1>4 DEF Mark
    <2>3. QED
      BY <1>1, <2>1, <2>2 DEF TypeOK
  <1>5. CASE Build(r)
    BY <1>1, <1>5 DEF Build, TypeOK
  <1>6. CASE Clear(r)
    <2>1. \A q \in Requests : pc[q] # "mark"
      BY <1>1, <1>6 DEF Clear, Progress
    <2>2. pg' = pg /\ pc' = [pc EXCEPT ![r] = "signal"]
      BY <1>6 DEF Clear
    <2>3. QED
      BY <1>1, <2>1, <2>2 DEF TypeOK
  <1>7. QED
    BY <1>2, <1>3, <1>4, <1>5, <1>6 DEF Request, Middleware, Cleanup

\* The flags and the holders change together.
LEMMA HoldersKept ==
    ASSUME IInv, NEW r \in Requests, Request(r)
    PROVE  UsedIsHeld' /\ HeldOnce'
  <1>1. TypeOK /\ UsedIsHeld /\ HeldOnce
    BY DEF IInv
  <1>2. ASSUME used' = used, \A q \in Requests : \A k \in 1..Uses : HeldBy(q, k)' = HeldBy(q, k)
        PROVE  UsedIsHeld' /\ HeldOnce'
    BY <1>1, <1>2 DEF UsedIsHeld, HeldOnce
  <1>3. CASE Pass(r) \/ Wait(r) \/ EnterTake(r) \/ Find(r)
             \/ EndHandling(r) \/ EnterPut(r) \/ Signal(r)
    <2>1. used' = used
      BY <1>3 DEF Pass, Wait, EnterTake, Find, EndHandling, EnterPut, Signal
    <2>2. QED
      BY <1>2, <1>3, <2>1, HeldUndisturbed
  <1>4. CASE Build(r)
    <2>1. used' = used
      BY <1>4 DEF Build
    <2>2. QED
      BY <1>2, <1>4, <2>1, BuildHolds
  <1>5. CASE Mark(r)
    <2> DEFINE n == Len(blocks[r]) + 1
    <2>1. /\ n \in 1..Uses /\ pg[r] \in Slots /\ ~used[pg[r]]
          /\ used' = [used EXCEPT ![pg[r]] = TRUE]
          /\ HeldBy(r, n) = NoSlot
          /\ \A q \in Requests : \A k \in 1..Uses :
                HeldBy(q, k)' = IF q = r /\ k = n THEN pg[r] ELSE HeldBy(q, k)
      BY <1>5, MarkHolds
    <2> HIDE DEF n
    <2>2. \A q \in Requests : \A k \in 1..Uses : HeldBy(q, k) # pg[r]
      BY <1>1, <2>1 DEF UsedIsHeld
    <2>3. HeldOnce'
      BY <1>1, <2>1, <2>2 DEF HeldOnce
    <2>4. NoSlot \notin Slots
      BY DEF NoSlot, Slots
    <2>5. ASSUME NEW s \in Slots
          PROVE  used'[s] <=> \E q \in Requests : \E k \in 1..Uses : HeldBy(q, k)' = s
      <3>1. CASE s = pg[r]
        BY <1>1, <2>1, <3>1 DEF TypeOK
      <3>2. CASE s # pg[r]
        <4>1. used'[s] <=> used[s]
          BY <1>1, <2>1, <3>2 DEF TypeOK
        <4>2. \A q \in Requests : \A k \in 1..Uses : HeldBy(q, k)' = s <=> HeldBy(q, k) = s
          BY <2>1, <2>4, <3>2
        <4>3. QED
          BY <1>1, <4>1, <4>2 DEF UsedIsHeld
      <3>3. QED
        BY <3>1, <3>2
    <2>6. QED
      BY <2>3, <2>5 DEF UsedIsHeld
  <1>6. CASE Clear(r)
    <2> DEFINE n == ran[r] + 1
               s0 == blocks[r][n]
    <2>1. /\ n \in 1..Uses /\ HeldBy(r, n) = s0 /\ s0 \in Slots
          /\ \A q \in Requests : \A k \in 1..Uses :
                HeldBy(q, k)' = IF q = r /\ k = n THEN NoSlot ELSE HeldBy(q, k)
      BY <1>6, ClearReleases
    <2>2. used' = [used EXCEPT ![s0] = FALSE]
      BY <1>6 DEF Clear
    <2> HIDE DEF n, s0
    <2>3. NoSlot \notin Slots
      BY DEF NoSlot, Slots
    <2>4. \A q \in Requests : \A k \in 1..Uses : HeldBy(q, k) = s0 => q = r /\ k = n
      BY <1>1, <2>1 DEF HeldOnce
    <2>5. HeldOnce'
      BY <1>1, <2>1, <2>3 DEF HeldOnce
    <2>6. ASSUME NEW s \in Slots
          PROVE  used'[s] <=> \E q \in Requests : \E k \in 1..Uses : HeldBy(q, k)' = s
      <3>1. CASE s = s0
        BY <1>1, <2>1, <2>2, <2>3, <2>4, <3>1 DEF TypeOK
      <3>2. CASE s # s0
        <4>1. used'[s] <=> used[s]
          BY <1>1, <2>2, <3>2 DEF TypeOK
        <4>2. \A q \in Requests : \A k \in 1..Uses : HeldBy(q, k)' = s <=> HeldBy(q, k) = s
          BY <2>1, <2>3, <3>2
        <4>3. QED
          BY <1>1, <4>1, <4>2 DEF UsedIsHeld
      <3>3. QED
        BY <3>1, <3>2
    <2>7. QED
      BY <2>5, <2>6 DEF UsedIsHeld
  <1>7. QED
    BY <1>3, <1>4, <1>5, <1>6 DEF Request, Middleware, Cleanup

\* Permits, flags and requests between the two always make up the pool's size.
LEMMA PermitsKept ==
    ASSUME IInv, NEW r \in Requests, Request(r)
    PROVE  PermitsBacked'
  <1>1. /\ permits \in Nat /\ PoolSize \in Nat /\ pc \in [Requests -> Locations]
        /\ used \in [Slots -> BOOLEAN] /\ PermitsBacked
    BY PgAssumption DEF IInv, TypeOK
  <1>2. CASE Pass(r) \/ EnterTake(r) \/ Find(r) \/ Build(r) \/ EndHandling(r) \/ EnterPut(r)
    <2>1. permits' = permits /\ UsedSlots' = UsedSlots /\ Between' = Between
      BY <1>1, <1>2 DEF Pass, EnterTake, Find, Build, EndHandling, EnterPut, Goto,
                        UsedSlots, Between
    <2>2. QED
      BY <1>1, <2>1 DEF PermitsBacked
  <1>3. CASE Wait(r)
    <2>1. UsedSlots' = UsedSlots /\ Between' = Between \cup {r} /\ r \notin Between
      BY <1>1, <1>3 DEF Wait, Goto, UsedSlots, Between
    <2>2. Cardinality(Between') = Cardinality(Between) + 1
      BY <2>1, Finiteness, FS_AddElement
    <2>3. permits' = permits - 1 /\ permits > 0
      BY <1>3 DEF Wait
    <2>4. QED
      BY <1>1, <2>1, <2>2, <2>3, Finiteness DEF PermitsBacked
  <1>4. CASE Mark(r)
    <2>1. /\ pg[r] \in Slots /\ ~used[pg[r]] /\ used' = [used EXCEPT ![pg[r]] = TRUE]
          /\ permits' = permits
      BY <1>4, MarkHolds DEF Mark
    <2>2. UsedSlots' = UsedSlots \cup {pg[r]} /\ pg[r] \notin UsedSlots
      BY <1>1, <2>1 DEF UsedSlots
    <2>3. Between' = Between \ {r} /\ r \in Between
      BY <1>1, <1>4 DEF Mark, Goto, Between
    <2>4. /\ Cardinality(UsedSlots') = Cardinality(UsedSlots) + 1
          /\ Cardinality(Between') = Cardinality(Between) - 1
      BY <2>2, <2>3, Finiteness, FS_AddElement, FS_RemoveElement
    <2>5. QED
      BY <1>1, <2>1, <2>4, Finiteness DEF PermitsBacked
  <1>5. CASE Clear(r)
    <2> DEFINE s0 == blocks[r][ran[r] + 1]
    <2>1. s0 \in Slots /\ used[s0]
      <3>1. s0 \in Slots /\ HeldBy(r, ran[r] + 1) = s0 /\ ran[r] + 1 \in 1..Uses
        BY <1>5, ClearReleases
      <3>2. QED
        BY <3>1 DEF IInv, UsedIsHeld
    <2>2. used' = [used EXCEPT ![s0] = FALSE] /\ permits' = permits
      BY <1>5 DEF Clear
    <2> HIDE DEF s0
    <2>3. UsedSlots' = UsedSlots \ {s0} /\ s0 \in UsedSlots
      BY <1>1, <2>1, <2>2 DEF UsedSlots
    <2>4. Between' = Between \cup {r} /\ r \notin Between
      BY <1>1, <1>5 DEF Clear, Goto, Between
    <2>5. /\ Cardinality(UsedSlots') = Cardinality(UsedSlots) - 1
          /\ Cardinality(Between') = Cardinality(Between) + 1
      BY <2>3, <2>4, Finiteness, FS_AddElement, FS_RemoveElement
    <2>6. QED
      BY <1>1, <2>2, <2>5, Finiteness DEF PermitsBacked
  <1>6. CASE Signal(r)
    <2>1. UsedSlots' = UsedSlots /\ Between' = Between \ {r} /\ r \in Between
      BY <1>1, <1>6 DEF Signal, Goto, UsedSlots, Between
    <2>2. Cardinality(Between') = Cardinality(Between) - 1
      BY <2>1, Finiteness, FS_RemoveElement
    <2>3. permits' = permits + 1
      BY <1>6 DEF Signal
    <2>4. QED
      BY <1>1, <2>1, <2>2, <2>3, Finiteness DEF PermitsBacked
  <1>7. QED
    BY <1>2, <1>3, <1>4, <1>5, <1>6 DEF Request, Middleware, Cleanup

\* Nobody else's passage holds the slot whose builder a request replaces.
LEMMA BuilderKept ==
    ASSUME IInv, NEW r \in Requests, Request(r)
    PROVE  BuilderIsHolders'
  <1>1. TypeOK /\ BuilderIsHolders /\ HeldOnce /\ Progress
    BY DEF IInv
  <1>2. CASE ~Build(r)
    <2>1. blocks' = blocks /\ builder' = builder
      BY <1>2 DEF Request, Middleware, Cleanup, Pass, Wait, EnterTake, Find, Mark,
                  EndHandling, EnterPut, Clear, Signal
    <2>2. \A q \in Requests : ran'[q] = ran[q] \/ ran'[q] = ran[q] + 1
      BY <1>1, <1>2 DEF Request, Middleware, Cleanup, Pass, Wait, EnterTake, Find, Mark,
                  EndHandling, EnterPut, Clear, Signal, TypeOK
    <2>3. \A q \in Requests : \A k \in HeldBlocks(q)' : k \in HeldBlocks(q)
      <3> SUFFICES ASSUME NEW q \in Requests, NEW k \in HeldBlocks(q)'
                   PROVE  k \in HeldBlocks(q)
        OBVIOUS
      <3>1. ran[q] \in Nat /\ k \in 1..Len(blocks[q]) /\ k > ran'[q]
        BY <1>1, <2>1 DEF HeldBlocks, TypeOK
      <3>2. Len(blocks[q]) \in Nat
        BY <1>1 DEF TypeOK
      <3>3. QED
        BY <2>2, <3>1, <3>2 DEF HeldBlocks
    <2>4. QED
      BY <1>1, <2>1, <2>3 DEF BuilderIsHolders
  <1>3. CASE Build(r)
    <2> DEFINE n == Len(blocks[r]) + 1
    <2>1. /\ n \in 1..Uses /\ HeldBy(r, n) = pg[r] /\ pg[r] \in Slots
          /\ blocks' = [blocks EXCEPT ![r] = Append(blocks[r], pg[r])]
          /\ builder' = [builder EXCEPT ![pg[r]] = r] /\ ran' = ran
      BY <1>3, BuildHolds DEF Build
    <2>2. \A q \in Requests : blocks[q] \in Seq(Slots) /\ Len(blocks[q]) \in Nat
      BY <1>1 DEF TypeOK
    <2>3. ASSUME NEW q \in Requests, NEW k \in HeldBlocks(q)'
          PROVE  builder'[blocks'[q][k]] = q
      <3>1. CASE q = r /\ k = n
        <4>1. blocks'[q][k] = pg[r]
          BY <1>1, <2>1, <2>2, <3>1 DEF TypeOK
        <4>2. QED
          BY <1>1, <2>1, <3>1, <4>1 DEF TypeOK
      <3>2. CASE ~(q = r /\ k = n)
        <4>1. k \in HeldBlocks(q) /\ blocks'[q][k] = blocks[q][k] /\ blocks[q][k] \in Slots
          BY <1>1, <2>1, <2>2, <3>2 DEF HeldBlocks, TypeOK
        <4>2. k \in 1..Uses /\ HeldBy(q, k) = blocks[q][k]
          BY <1>1, <2>2, <4>1, PgAssumption DEF HeldBy, HeldBlocks, TypeOK
        <4>3. blocks[q][k] # pg[r]
          BY <1>1, <2>1, <3>2, <4>1, <4>2 DEF HeldOnce
        <4>4. builder[blocks[q][k]] = q
          BY <1>1, <4>1 DEF BuilderIsHolders
        <4>5. QED
          BY <1>1, <2>1, <4>1, <4>3, <4>4 DEF TypeOK
      <3>3. QED
        BY <3>1, <3>2
    <2>4. QED
      BY <2>3 DEF BuilderIsHolders
  <1>4. QED
    BY <1>2, <1>3

\* The invariant is inductive.
LEMMA StepInv == IInv /\ [Next]_vars => IInv'
  <1> SUFFICES ASSUME IInv, [Next]_vars PROVE IInv'
    OBVIOUS
  <1>1. CASE UNCHANGED vars
    <2>1. UsedSlots' = UsedSlots /\ Between' = Between
          /\ \A q \in Requests : \A k \in 1..Uses : HeldBy(q, k)' = HeldBy(q, k)
      BY <1>1 DEF vars, UsedSlots, Between, HeldBy, HeldBlocks
    <2>2. UsedIsHeld' /\ HeldOnce' /\ PermitsBacked'
      BY <1>1, <2>1 DEF vars, IInv, UsedIsHeld, HeldOnce, PermitsBacked
    <2>3. TypeOK' /\ Progress' /\ Found' /\ BuilderIsHolders'
      BY <1>1 DEF vars, IInv, TypeOK, Progress, Found, BuilderIsHolders, HeldBlocks
    <2>4. QED
      BY <2>2, <2>3 DEF IInv
  <1>2. ASSUME NEW r \in Requests, Request(r) PROVE IInv'
    BY <1>2, TypeKept, ProgressKept, FoundKept, HoldersKept, PermitsKept, BuilderKept DEF IInv
  <1>3. QED
    BY <1>1, <1>2 DEF Next

-----------------------------------------------------------------------------
(* The theorems. *)

\* The inductive invariant holds in every reachable state.
THEOREM PgInvariant == Spec => []IInv
  <1>1. QED
    BY InitInv, StepInv, PTL DEF Spec

\* The variables keep their types.
THEOREM PgTypeOK == Spec => []TypeOK
  <1>1. IInv => TypeOK
    BY DEF IInv
  <1>2. QED
    BY <1>1, PgInvariant, PTL

\* The middleware's unchecked use of pg never meets NULL.
THEOREM PgSlotFound == Spec => []SlotFound
  <1>1. IInv => SlotFound
    BY DEF IInv, Found, SlotFound
  <1>2. QED
    BY <1>1, PgInvariant, PTL

\* The slots marked used are the slots that requests hold.
THEOREM PgFlagsMatchHolders == Spec => []FlagsMatchHolders
  <1>1. ASSUME IInv PROVE FlagsMatchHolders
    <2>1. \A r \in Requests : \A s \in Slots :
             s \in HeldSlots(r) <=> \E k \in 1..Uses : HeldBy(r, k) = s
      <3> SUFFICES ASSUME NEW r \in Requests, NEW s \in Slots
                   PROVE  s \in HeldSlots(r) <=> \E k \in 1..Uses : HeldBy(r, k) = s
        OBVIOUS
      <3>1. s # NoSlot /\ Len(blocks[r]) \in Nat /\ Len(blocks[r]) <= Uses
        BY <1>1 DEF IInv, TypeOK, Slots, NoSlot
      <3>2. HeldBlocks(r) \subseteq 1..Uses /\ Len(blocks[r]) + 1 \notin HeldBlocks(r)
        BY <3>1, PgAssumption DEF HeldBlocks
      <3>3. pc[r] = "build" => Len(blocks[r]) + 1 \in 1..Uses
        BY <1>1, <3>1, PgAssumption DEF IInv, Progress
      <3>4. ASSUME s \in HeldSlots(r)
            PROVE  \E k \in 1..Uses : HeldBy(r, k) = s
        <4>1. CASE \E k \in HeldBlocks(r) : blocks[r][k] = s
          BY <3>2, <4>1 DEF HeldBy
        <4>2. CASE pc[r] = "build" /\ pg[r] = s
          BY <3>2, <3>3, <4>2 DEF HeldBy
        <4>3. QED
          BY <3>4, <4>1, <4>2 DEF HeldSlots
      <3>5. ASSUME NEW k \in 1..Uses, HeldBy(r, k) = s
            PROVE  s \in HeldSlots(r)
        BY <3>1, <3>5 DEF HeldBy, HeldSlots
      <3>6. QED
        BY <3>4, <3>5
    <2>2. \A r \in Requests : HeldSlots(r) \subseteq Slots
      <3> SUFFICES ASSUME NEW r \in Requests PROVE HeldSlots(r) \subseteq Slots
        OBVIOUS
      <3>1. blocks[r] \in Seq(Slots) /\ (pc[r] = "build" => pg[r] \in Slots)
        BY <1>1 DEF IInv, TypeOK, Found
      <3>2. QED
        BY <3>1 DEF HeldSlots, HeldBlocks
    <2>3. QED
      BY <1>1, <2>1, <2>2 DEF IInv, UsedIsHeld, FlagsMatchHolders
  <1>2. QED
    BY <1>1, PgInvariant, PTL

\* A held connection's builder is in its holder's memory.
THEOREM PgBuilderIsHolders == Spec => []BuilderIsHolders
  <1>1. IInv => BuilderIsHolders
    BY DEF IInv
  <1>2. QED
    BY <1>1, PgInvariant, PTL

-----------------------------------------------------------------------------
(* Refinement.  Marking takes, clearing gives back, the rest stutters. *)

\* The passages that hold a slot are no more than the slots in use.
LEMMA HoldersFitUsed ==
    ASSUME IInv
    PROVE  Abstract!Cardinality(Abstract!Holders) <= Cardinality(UsedSlots)
           /\ Abstract!Cardinality(Abstract!Holders) \in Nat
  <1> DEFINE H == {u \in Passages : Held[u] # NoSlot}
             f == [u \in H |-> Held[u]]
  <1>1. ASSUME NEW u \in Passages
        PROVE  Held[u] \in Slots \cup {NoSlot}
    <2>1. u[1] \in Requests /\ u[2] \in 1..Uses /\ Held[u] = HeldBy(u[1], u[2])
      BY DEF Passages, Held
    <2>2. /\ blocks[u[1]] \in Seq(Slots) /\ pg[u[1]] \in Slots \cup {NoSlot}
      BY <1>1, <2>1 DEF IInv, TypeOK
    <2>3. QED
      BY <2>1, <2>2 DEF HeldBy, HeldBlocks
  <1>2. \A u \in H : Held[u] \in UsedSlots
    <2> SUFFICES ASSUME NEW u \in H PROVE Held[u] \in UsedSlots
      OBVIOUS
    <2>1. Held[u] \in Slots /\ u[1] \in Requests /\ u[2] \in 1..Uses
          /\ Held[u] = HeldBy(u[1], u[2])
      BY <1>1 DEF Passages, Held
    <2>2. QED
      BY <2>1 DEF IInv, UsedIsHeld, UsedSlots
  <1>3. \A u, v \in H : Held[u] = Held[v] => u = v
    <2> SUFFICES ASSUME NEW u \in H, NEW v \in H, Held[u] = Held[v] PROVE u = v
      OBVIOUS
    <2>1. /\ u = <<u[1], u[2]>> /\ v = <<v[1], v[2]>>
          /\ u[1] \in Requests /\ u[2] \in 1..Uses /\ v[1] \in Requests /\ v[2] \in 1..Uses
          /\ Held[u] = HeldBy(u[1], u[2]) /\ Held[v] = HeldBy(v[1], v[2])
      BY DEF Passages, Held
    <2>2. HeldBy(u[1], u[2]) \in Slots
      BY <1>2, <2>1 DEF UsedSlots
    <2>3. HeldBy(u[1], u[2]) = HeldBy(v[1], v[2])
      BY <2>1
    <2>4. \A r, q \in Requests : \A j, k \in 1..Uses :
             HeldBy(r, j) \in Slots /\ HeldBy(r, j) = HeldBy(q, k) => r = q /\ j = k
      BY DEF IInv, HeldOnce
    <2> HIDE DEF H
    <2>5. u[1] = v[1] /\ u[2] = v[2]
      BY <2>1, <2>2, <2>3, <2>4
    <2>6. QED
      BY <2>1, <2>5
  <1>4. f \in Injection(H, UsedSlots)
    BY <1>2, <1>3 DEF Injection, IsInjective
  <1>5. Cardinality(H) <= Cardinality(UsedSlots) /\ Cardinality(H) \in Nat
    BY <1>4, Finiteness, FS_Injection, FS_CardinalityType
  <1>6. Abstract!Holders = H
    BY DEF Abstract!Holders, Held, HeldBy, Passages
  <1>7. Abstract!Cardinality(Abstract!Holders) = Cardinality(H)
    BY <1>6 DEF Abstract!Cardinality, Cardinality
  <1>8. QED
    BY <1>5, <1>7

\* A passage that marks a slot takes an unheld one, while fewer than all are held.
LEMMA MarkTakes ==
    ASSUME IInv, NEW r \in Requests, Mark(r)
    PROVE  Abstract!Next
  <1> DEFINE n == Len(blocks[r]) + 1
  <1>1. /\ n \in 1..Uses /\ pg[r] \in Slots /\ ~used[pg[r]] /\ HeldBy(r, n) = NoSlot
        /\ \A q \in Requests : \A k \in 1..Uses :
              HeldBy(q, k)' = IF q = r /\ k = n THEN pg[r] ELSE HeldBy(q, k)
    BY MarkHolds
  <1>2. r \in Between
    BY DEF Mark, Goto, Between
  <1>3. Abstract!Cardinality(Abstract!Holders) < PoolSize
    <2>1. Cardinality(UsedSlots) < PoolSize
      BY <1>2, RoomForOne DEF IInv, TypeOK
    <2>2. QED
      BY <2>1, HoldersFitUsed, Finiteness, PgAssumption
  <1> HIDE DEF n
  <1>4. PICK t \in Passages : t = <<r, n>> /\ Held[t] = NoSlot
    <2>1. <<r, n>> \in Passages /\ Held[<<r, n>>] = NoSlot
      BY <1>1 DEF Passages, Held
    <2>2. QED
      BY <2>1
  <1>5. \A u \in Passages : Held[u] # pg[r]
    BY <1>1 DEF Passages, Held, IInv, UsedIsHeld
  <1>6. Held' = [Held EXCEPT ![t] = pg[r]]
    <2>1. \A u \in Passages : u = t <=> u[1] = r /\ u[2] = n
      BY <1>4 DEF Passages
    <2>2. \A u \in Passages : Held'[u] = IF u = t THEN pg[r] ELSE Held[u]
      BY <1>1, <2>1 DEF Passages, Held
    <2>3. QED
      BY <2>2 DEF Held
  <1>7. \E c \in Slots : (\A u \in Passages : Held[u] # c) /\ Held' = [Held EXCEPT ![t] = c]
    BY <1>1, <1>5, <1>6
  <1>8. Abstract!Take(t)
    BY <1>3, <1>4, <1>7 DEF Abstract!Take, Held, HeldBy, Passages
  <1>9. QED
    BY <1>8 DEF Abstract!Next, Passages

\* A passage that clears a flag gives its slot back.
LEMMA ClearGivesBack ==
    ASSUME IInv, NEW r \in Requests, Clear(r)
    PROVE  Abstract!Next
  <1> DEFINE n == ran[r] + 1
  <1>1. /\ n \in 1..Uses /\ HeldBy(r, n) \in Slots
        /\ \A q \in Requests : \A k \in 1..Uses :
              HeldBy(q, k)' = IF q = r /\ k = n THEN NoSlot ELSE HeldBy(q, k)
    BY ClearReleases
  <1> HIDE DEF n
  <1>2. PICK t \in Passages : t = <<r, n>> /\ Held[t] # NoSlot
    <2>1. <<r, n>> \in Passages /\ Held[<<r, n>>] # NoSlot
      BY <1>1 DEF Passages, Held, NoSlot, Slots
    <2>2. QED
      BY <2>1
  <1>3. Held' = [Held EXCEPT ![t] = NoSlot]
    <2>1. \A u \in Passages : u = t <=> u[1] = r /\ u[2] = n
      BY <1>2 DEF Passages
    <2>2. \A u \in Passages : Held'[u] = IF u = t THEN NoSlot ELSE Held[u]
      BY <1>1, <2>1 DEF Passages, Held
    <2>3. QED
      BY <2>2 DEF Held
  <1>4. Abstract!GiveBack(t)
    BY <1>2, <1>3 DEF Abstract!GiveBack, Held, HeldBy, Passages
  <1>5. QED
    BY <1>4 DEF Abstract!Next, Passages

\* The flags, the semaphore and the queue implement the abstract pool.
THEOREM PgImplementsAbstract == Spec => ImplementsAbstractPool
  <1>1. Init => Abstract!Init
    BY DEF Init, Abstract!Init, HeldBlocks
  <1>2. IInv /\ [Next]_vars => [Abstract!Next]_Held
    <2> SUFFICES ASSUME IInv, [Next]_vars PROVE [Abstract!Next]_Held
      OBVIOUS
    <2>1. CASE UNCHANGED vars
      BY <2>1 DEF vars, Held, HeldBy, HeldBlocks
    <2>2. ASSUME NEW r \in Requests, Request(r) PROVE [Abstract!Next]_Held
      <3>1. CASE Mark(r) \/ Clear(r)
        BY <3>1, MarkTakes, ClearGivesBack
      <3>2. CASE ~(Mark(r) \/ Clear(r))
        <4>1. \A q \in Requests : \A k \in 1..Uses : HeldBy(q, k)' = HeldBy(q, k)
          BY <2>2, <3>2, HeldUndisturbed, BuildHolds DEF Request, Middleware, Cleanup
        <4>2. \A u \in Passages : Held'[u] = Held[u]
          BY <4>1 DEF Held, Passages
        <4>3. QED
          BY <4>2 DEF Held
      <3>3. QED
        BY <3>1, <3>2
    <2>3. QED
      BY <2>1, <2>2 DEF Next
  <1>3. QED
    BY <1>1, <1>2, PgInvariant, PTL
       DEF Spec, ImplementsAbstractPool, Abstract!Spec, Held, HeldBy, Passages

=============================================================================
