--------------------------- MODULE Request_Proofs ---------------------------
(***************************************************************************)
(* Theorems about what is done with a request before its handler runs: its  *)
(* reading (RequestRead) and the search for its route (RouteMatching), for  *)
(* any sizes of headers, bodies and buffer, and for any routers and paths.  *)
(***************************************************************************)
EXTENDS RequestRead, RouteMatching, TLAPS, FiniteSetTheorems, WellFoundedInduction

(* Reading a request. *)

\* What the read loops know: they have counted what they read, the headers are
\* not complete, and every read that was not the last of a loop left a cut.
Counted ==
    /\ pc = "headers" => size = taken /\ size < header /\ (taken > 0 => taken \in cuts)
    /\ pc = "body" => size = taken /\ contentLength > 0

\* The body is waited for with nothing of it read, unless a read was cut short.
BodyFromItsStart == pc = "body" /\ cuts \subseteq {header, Whole} => taken = header

ReadInv == ReadTypes /\ Counted /\ BodyFromItsStart /\ WholeUnlessCut

\* The smaller one of two numbers.
LEMMA MinOfTwo ==
    ASSUME NEW a \in Int, NEW b \in Int
    PROVE  /\ Min({a, b}) \in {a, b}
           /\ Min({a, b}) <= a /\ Min({a, b}) <= b
<1> DEFINE P(x) == x \in {a, b} /\ \A y \in {a, b} : x <= y
<1>1. \E x : P(x)
  <2>1. CASE a <= b
    BY <2>1
  <2>2. CASE ~(a <= b)
    BY <2>2
  <2> QED BY <2>1, <2>2
<1>2. Min({a, b}) = CHOOSE x \in {a, b} : \A y \in {a, b} : x <= y
  BY DEF Min
<1> QED BY <1>1, <1>2

\* A read gets what is there, as far as there is room for it.
LEMMA ReadFits ==
    ASSUME ReadTypes
    PROVE  /\ ReadBytes \in 0..(sent - taken) /\ ReadBytes <= Room
           /\ ReadBytes \in {sent - taken, Room}
<1>1. /\ sent \in Nat /\ taken \in Nat /\ taken <= sent /\ size \in Nat /\ size <= Capacity
      /\ Capacity \in Nat
  BY ReadAssumption DEF ReadTypes, Whole
<1>2. sent - taken \in Nat /\ Room \in Nat
  BY <1>1 DEF Room
<1> QED BY <1>1, <1>2, MinOfTwo DEF ReadBytes

\* At first nothing has been read.
LEMMA ReadInitInv == ReadInit => ReadInv
BY ReadAssumption DEF ReadInit, ReadInv, ReadTypes, Counted, BodyFromItsStart, WholeUnlessCut, Whole

\* The invariant is inductive.
LEMMA ReadNextInv == ReadInv /\ [ReadNext]_readVars => ReadInv'
<1> SUFFICES ASSUME ReadInv, [ReadNext]_readVars PROVE ReadInv'
  OBVIOUS
<1> USE ReadAssumption
<1>0. header \in Nat /\ contentLength \in Nat /\ Whole \in Nat /\ taken \in Nat /\ sent \in Nat
      /\ size \in Nat /\ header > 0 /\ header <= Whole /\ taken <= sent /\ sent <= Whole
  BY DEF ReadInv, ReadTypes, Whole
<1>1. CASE Send
  BY <1>0, <1>1 DEF Send, ReadInv, ReadTypes, Counted, BodyFromItsStart, WholeUnlessCut, Whole, client
<1>2. CASE Close
  BY <1>0, <1>2 DEF Close, ReadInv, ReadTypes, Counted, BodyFromItsStart, WholeUnlessCut, Whole, client
<1>3. CASE Tick
  BY <1>0, <1>3 DEF Tick, ReadInv, ReadTypes, Counted, BodyFromItsStart, WholeUnlessCut, Whole, client
<1>4. CASE ReadHeaders
  <2> DEFINE n == ReadBytes
  <2>1. n \in Nat /\ n > 0 /\ n <= sent - taken /\ n <= Capacity - size
    BY <1>0, <1>4, ReadFits DEF ReadHeaders, ReadInv, Room
  <2>2. /\ taken' = taken + n /\ cuts' = cuts \cup {taken + n} /\ size' = size + n
        /\ UNCHANGED <<header, contentLength, wellFormed, sent, open, clock>>
    BY <1>4, <2>1 DEF ReadHeaders, Take, client
  <2>3. /\ size = taken /\ size < header /\ (taken > 0 => taken \in cuts)
    BY <1>4 DEF ReadHeaders, ReadInv, Counted
  <2>4. pc' = "refused" \/ pc' = Parsed(n)
    BY <1>4 DEF ReadHeaders
  <2>5. pc' = Parsed(n) =>
          \/ pc' = "headers" /\ size + n < header
          \/ pc' = "refused"
          \/ pc' = "body" /\ size + n >= header /\ contentLength # 0 /\ header = n
          \/ pc' = "built" /\ size + n >= header /\ (contentLength = 0 \/ header # n)
    BY <1>0, <2>1 DEF Parsed, BodyAwaited, Finished
  <2> HIDE DEF n
  <2>6. ReadTypes'
    BY <1>0, <2>1, <2>2, <2>3, <2>4, <2>5 DEF ReadInv, ReadTypes, Whole
  <2>7. Counted'
    BY <1>0, <2>1, <2>2, <2>3, <2>4, <2>5 DEF Counted
  \* Nothing was read before, or the read before this one left a cut.
  <2>8. cuts' \subseteq {header, Whole} => taken = 0
    BY <1>0, <2>2, <2>3
  <2>9. BodyFromItsStart'
    BY <1>0, <2>1, <2>2, <2>3, <2>4, <2>5, <2>8 DEF BodyFromItsStart, Whole
  <2>10. WholeUnlessCut'
    BY <1>0, <2>1, <2>2, <2>3, <2>4, <2>5, <2>8 DEF WholeUnlessCut, Whole
  <2> QED BY <2>6, <2>7, <2>9, <2>10 DEF ReadInv
<1>5. CASE ReadFails
  BY <1>0, <1>5 DEF ReadFails, ReadInv, ReadTypes, Counted, BodyFromItsStart, WholeUnlessCut, Whole, client
<1>6. CASE ReadBody
  <2> DEFINE n == ReadBytes
  <2>1. n \in Nat /\ n <= sent - taken /\ n <= Capacity - size /\ n \in {sent - taken, Capacity - size}
    BY <1>0, ReadFits DEF ReadInv, Room
  <2>2. /\ taken' = taken + n /\ cuts' = IF n = 0 THEN cuts ELSE cuts \cup {taken + n}
        /\ UNCHANGED <<header, contentLength, wellFormed, sent, open, clock, size>>
    BY <1>6, <2>1 DEF ReadBody, Take, client
  <2>3. /\ size = taken /\ contentLength > 0
        /\ cuts \subseteq {header, Whole} => taken = header
    BY <1>6 DEF ReadBody, ReadInv, Counted, BodyFromItsStart
  <2>4. pc' = "refused" \/ (pc' = "built" /\ contentLength <= Capacity - header)
    BY <1>6 DEF ReadBody, Finished
  <2>5. sent > taken \/ ~open \/ Capacity - size = 0
    BY <1>6 DEF ReadBody, Readable, Room
  <2> HIDE DEF n
  <2>6. ReadTypes'
    BY <1>0, <2>1, <2>2, <2>3, <2>4 DEF ReadInv, ReadTypes, Whole
  <2>7. Counted' /\ BodyFromItsStart'
    BY <2>4 DEF Counted, BodyFromItsStart
  <2>8. WholeUnlessCut'
    <3> SUFFICES ASSUME pc' = "built", cuts' \subseteq {header, Whole}, open \/ sent = Whole
                 PROVE  taken + n = Whole
      BY <2>2 DEF WholeUnlessCut, Whole
    <3>1. cuts \subseteq {header, Whole} /\ taken = header /\ size = header
      BY <2>2, <2>3
    <3>2. Capacity - size > 0 /\ Whole = header + contentLength /\ Capacity \in Nat
      BY <1>0, <2>3, <2>4, <3>1 DEF Whole
    <3>3. n > 0
      BY <1>0, <2>1, <2>3, <2>5, <3>1, <3>2
    <3>4. taken + n \in {header, Whole}
      BY <2>2, <3>3
    <3> QED BY <1>0, <2>1, <3>1, <3>3, <3>4
  <2> QED BY <2>6, <2>7, <2>8 DEF ReadInv
<1>7. CASE UNCHANGED readVars
  BY <1>7 DEF readVars, ReadInv, ReadTypes, Counted, BodyFromItsStart, WholeUnlessCut, Whole
<1> QED BY <1>1, <1>2, <1>3, <1>4, <1>5, <1>6, <1>7 DEF ReadNext, Server

\* The inductive invariant of the read loops.
THEOREM ReadInvariant == ReadSpec => []ReadInv
BY ReadInitInv, ReadNextInv, PTL DEF ReadSpec

\* Types: no read goes past the buffer, past what was sent, or past the request.
THEOREM ReadTypeOK == ReadSpec => []ReadTypes
<1>1. ReadInv => ReadTypes
  BY DEF ReadInv
<1> QED BY <1>1, ReadInvariant, PTL

\* A request that no read cut within headers or body is handed on whole, for
\* headers, bodies and buffers of any size.
THEOREM ReadWholeUnlessCut == ReadSpec => []WholeUnlessCut
<1>1. ReadInv => WholeUnlessCut
  BY DEF ReadInv
<1> QED BY <1>1, ReadInvariant, PTL

-----------------------------------------------------------------------------
(* Matching: the routers mounted on one another. *)

\* Only other routers are mounted, each once, and none below itself.
IsForest(rs) ==
    /\ \A p \in Routers : rs[p].children \in Seq(SubRouters)
    /\ \A p, q \in Routers : \A i \in DOMAIN rs[p].children, j \in DOMAIN rs[q].children :
         rs[p].children[i] = rs[q].children[j] => p = q /\ i = j
    /\ \A p \in Routers : \A x \in Range(rs[p].children) : p \notin Below(rs, x)

\* Children are listed by number.
LEMMA ChildrenListed ==
    ASSUME NEW rs, IsForest(rs), NEW p \in Routers
    PROVE  /\ Range(rs[p].children) \subseteq Routers \cap SubRouters
           /\ DOMAIN rs[p].children \subseteq Nat
<1>1. rs[p].children \in Seq(SubRouters)
  BY DEF IsForest
<1> QED
  BY <1>1 DEF Range, Routers

\* A router is below itself, and only routers are.
LEMMA BelowSelf ==
    ASSUME NEW rs, NEW r \in Routers
    PROVE  r \in Below(rs, r) /\ Below(rs, r) \subseteq Routers
BY DEF Below

\* What is mounted on a router below r is below r.
LEMMA BelowChild ==
    ASSUME NEW rs, IsForest(rs), NEW r, NEW p \in Below(rs, r), NEW x \in Range(rs[p].children)
    PROVE  x \in Below(rs, r)
<1>1. p \in Routers /\ x \in Routers
  BY ChildrenListed DEF Below
<1> QED
  BY <1>1 DEF Below

\* Induction: what r has, and children have of their parents, everything below r has.
LEMMA BelowInduction ==
    ASSUME NEW rs, IsForest(rs), NEW r \in Routers, NEW S, r \in S,
           \A p \in Below(rs, r) \cap S : Range(rs[p].children) \subseteq S
    PROVE  Below(rs, r) \subseteq S
<1> DEFINE T == S \cap Below(rs, r)
<1>1. T \in SUBSET Routers /\ r \in T
  BY BelowSelf
<1>2. \A p \in T : Range(rs[p].children) \subseteq T
  BY BelowChild
<1> HIDE DEF T
<1>3. Below(rs, r) \subseteq T
  BY <1>1, <1>2 DEF Below
<1> QED
  BY <1>3 DEF T

\* Below is transitive.
LEMMA BelowBelow ==
    ASSUME NEW rs, IsForest(rs), NEW x \in Routers, NEW y \in Below(rs, x)
    PROVE  Below(rs, y) \subseteq Below(rs, x)
<1>1. y \in Routers
  BY BelowSelf
<1>2. \A p \in Below(rs, y) \cap Below(rs, x) : Range(rs[p].children) \subseteq Below(rs, x)
  BY BelowChild
<1> QED
  BY <1>1, <1>2, BelowInduction

\* Above a router below r, up to r, is its parent.
LEMMA BelowHasParent ==
    ASSUME NEW rs, IsForest(rs), NEW r \in Routers, NEW x \in Below(rs, r), x # r
    PROVE  \E p \in Below(rs, r) : x \in Range(rs[p].children)
<1> DEFINE S == {y \in Below(rs, r) : y = r \/ \E p \in Below(rs, r) : y \in Range(rs[p].children)}
<1>1. r \in S
  BY BelowSelf
<1>2. \A p \in Below(rs, r) \cap S : Range(rs[p].children) \subseteq S
  BY BelowChild
<1> HIDE DEF S
<1>3. x \in S
  BY <1>1, <1>2, BelowInduction
<1> QED
  BY <1>3 DEF S

\* What is below x, and is not x, is below a child of x.
LEMMA BelowAChild ==
    ASSUME NEW rs, IsForest(rs), NEW x \in Routers, NEW y \in Below(rs, x), y # x
    PROVE  \E z \in Range(rs[x].children) : y \in Below(rs, z)
<1> DEFINE S == {y1 \in Routers : y1 = x \/ \E z \in Range(rs[x].children) : y1 \in Below(rs, z)}
<1>1. x \in S
  OBVIOUS
<1>2. \A p \in Below(rs, x) \cap S : Range(rs[p].children) \subseteq S
  <2> SUFFICES ASSUME NEW p \in Below(rs, x), p \in S, NEW c \in Range(rs[p].children)
               PROVE  c \in S
    OBVIOUS
  <2>1. c \in Routers /\ p \in Routers
    BY ChildrenListed
  <2>2. CASE p = x
    BY <2>1, <2>2, BelowSelf
  <2>3. CASE p # x
    <3>1. PICK z \in Range(rs[x].children) : p \in Below(rs, z)
      BY <2>3
    <3>2. c \in Below(rs, z)
      BY <3>1, BelowChild
    <3> QED
      BY <2>1, <3>2
  <2> QED
    BY <2>2, <2>3
<1> HIDE DEF S
<1>3. y \in S
  BY <1>1, <1>2, BelowInduction
<1> QED
  BY <1>3 DEF S

\* There is one parent.
LEMMA OneParent ==
    ASSUME NEW rs, IsForest(rs), NEW p \in Routers, NEW x \in Range(rs[p].children)
    PROVE  /\ ParentOf(rs, x) = p
           /\ \A q \in Routers : x \in Range(rs[q].children) => q = p
<1>1. \A q \in Routers : x \in Range(rs[q].children) => q = p
  BY DEF IsForest, Range
<1> QED
  BY <1>1 DEF ParentOf

\* Two routers are not below each other.
LEMMA NotBelowEachOther ==
    ASSUME NEW rs, IsForest(rs), NEW x \in Routers, NEW y \in Below(rs, x), x \in Below(rs, y)
    PROVE  x = y
<1> SUFFICES ASSUME x # y PROVE FALSE
  OBVIOUS
<1>1. PICK z \in Range(rs[x].children) : y \in Below(rs, z)
  BY BelowAChild
<1>2. z \in Routers
  BY ChildrenListed
<1>3. x \in Below(rs, z)
  BY <1>1, <1>2, BelowBelow
<1> QED
  BY <1>1, <1>3 DEF IsForest

\* The parent of what is below x, and is not x, is below x.
LEMMA ParentBelow ==
    ASSUME NEW rs, IsForest(rs), NEW x \in Routers, NEW p \in Routers, NEW y \in Range(rs[p].children),
           y \in Below(rs, x), y # x
    PROVE  p \in Below(rs, x)
<1>1. PICK q \in Below(rs, x) : y \in Range(rs[q].children)
  BY BelowHasParent
<1>2. q \in Routers
  BY BelowSelf
<1> QED
  BY <1>1, <1>2, OneParent

\* Of two routers above a third, one is above the other.
LEMMA AboveInLine ==
    ASSUME NEW rs, IsForest(rs), NEW a \in Routers, NEW b \in Routers,
           NEW y \in Below(rs, a), y \in Below(rs, b)
    PROVE  a \in Below(rs, b) \/ b \in Below(rs, a)
<1> SUFFICES ASSUME b \notin Below(rs, a), a \notin Below(rs, b) PROVE FALSE
  OBVIOUS
<1> DEFINE S == Routers \ Below(rs, b)
<1>1. a \in S
  OBVIOUS
<1>2. \A p \in Below(rs, a) \cap S : Range(rs[p].children) \subseteq S
  <2> SUFFICES ASSUME NEW p \in Below(rs, a), p \in S, NEW c \in Range(rs[p].children)
               PROVE  c \in S
    OBVIOUS
  <2>1. c \in Routers /\ p \in Routers /\ c \in Below(rs, a)
    BY ChildrenListed, BelowChild
  <2>2. c # b
    BY <2>1
  <2>3. c \notin Below(rs, b)
    BY <2>1, <2>2, ParentBelow
  <2> QED
    BY <2>1, <2>3
<1> HIDE DEF S
<1>3. y \in S
  BY <1>1, <1>2, BelowInduction
<1> QED
  BY <1>3 DEF S

\* Below two children of a router are different routers.
LEMMA SiblingsApart ==
    ASSUME NEW rs, IsForest(rs), NEW p \in Routers, NEW i \in DOMAIN rs[p].children,
           NEW j \in DOMAIN rs[p].children, i # j
    PROVE  Below(rs, rs[p].children[i]) \cap Below(rs, rs[p].children[j]) = {}
<1> DEFINE a == rs[p].children[i]
           b == rs[p].children[j]
<1>1. a \in Range(rs[p].children) /\ b \in Range(rs[p].children) /\ a # b
  BY DEF Range, IsForest
<1>2. a \in Routers /\ b \in Routers
  BY <1>1, ChildrenListed
<1> HIDE DEF a, b
<1>3. a \notin Below(rs, b) /\ b \notin Below(rs, a)
  BY <1>1, <1>2, ParentBelow DEF IsForest
<1>4. Below(rs, a) \cap Below(rs, b) = {}
  BY <1>2, <1>3, AboveInLine
<1> QED
  BY <1>4 DEF a, b

-----------------------------------------------------------------------------
(* The order of the routes. *)

\* A set of natural numbers has a least one.
LEMMA LeastOfNaturals ==
    ASSUME NEW S, S \subseteq Nat, S # {}
    PROVE  Min(S) \in S /\ \A n \in S : Min(S) <= n
<1>1. \E m \in S : \A n \in S : m <= n
  <2> DEFINE R == OpToRel(<, Nat)
  <2>1. PICK m \in S : \A n \in S : ~(<<n, m>> \in R)
    BY NatLessThanWellFounded, WFMin, Zenon
  <2>2. \A n \in S : n < m => <<n, m>> \in R
    BY DEF OpToRel
  <2>3. \A n \in S : n \in Nat /\ m \in Nat /\ ~(n < m)
    BY <2>1, <2>2
  <2> QED
    BY <2>3
<1> QED
  BY <1>1 DEF Min

\* x, y are on a line, or below different children of some router.
LEMMA CollectedTotal ==
    ASSUME IsForest(routers), App \in Routers, NEW x \in Mounted, NEW y \in Mounted
    PROVE  CollectedFirst(x, y) \/ CollectedFirst(y, x)
<1> DEFINE S == {z \in Routers : CollectedFirst(z, y) \/ CollectedFirst(y, z)}
<1>1. App \in S
  BY DEF Mounted, CollectedFirst
<1>2. \A p \in Mounted \cap S : Range(routers[p].children) \subseteq S
  <2> SUFFICES ASSUME NEW p \in Mounted, p \in S, NEW c \in Range(routers[p].children)
               PROVE  CollectedFirst(c, y) \/ CollectedFirst(y, c)
    BY BelowSelf, ChildrenListed DEF Mounted
  <2>1. p \in Routers /\ y \in Routers /\ c \in Routers
    BY BelowSelf, ChildrenListed DEF Mounted
  <2>2. PICK j \in DOMAIN routers[p].children : c = routers[p].children[j]
    BY DEF Range
  <2>3. c \in Below(routers, c) /\ c \in Below(routers, p)
    BY <2>1, BelowSelf, BelowChild
  <2>4. CASE y = p
    BY <2>3, <2>4 DEF CollectedFirst
  <2>5. CASE y # p /\ y \in Below(routers, p)
    <3>1. PICK z \in Range(routers[p].children) : y \in Below(routers, z)
      BY <2>1, <2>5, BelowAChild
    <3>2. PICK i \in DOMAIN routers[p].children : z = routers[p].children[i]
      BY DEF Range
    <3>3. i \in Nat /\ j \in Nat
      BY <2>1, ChildrenListed
    <3>4. CASE i = j
      BY <2>2, <3>1, <3>2, <3>4 DEF CollectedFirst
    <3>5. CASE i < j
      BY <2>1, <2>2, <2>3, <3>1, <3>2, <3>5 DEF CollectedFirst
    <3>6. CASE j < i
      BY <2>1, <2>2, <2>3, <3>1, <3>2, <3>6 DEF CollectedFirst
    <3> QED
      BY <3>3, <3>4, <3>5, <3>6
  <2>6. CASE p \in Below(routers, y)
    <3>1. c \in Below(routers, y)
      BY <2>6, BelowChild
    <3> QED
      BY <3>1 DEF CollectedFirst
  <2>7. CASE y \notin Below(routers, p) /\ p \notin Below(routers, y)
    <3>1. \A q \in Routers : \A i \in DOMAIN routers[q].children :
            p \in Below(routers, routers[q].children[i]) => c \in Below(routers, routers[q].children[i])
      BY BelowChild
    <3> QED
      BY <2>7, <3>1 DEF CollectedFirst
  <2> QED
    BY <2>4, <2>5, <2>6, <2>7
<1> HIDE DEF S
<1>3. x \in S
  BY <1>1, <1>2, BelowInduction DEF Mounted
<1> QED
  BY <1>3 DEF S

\* Below a child of p is below p, and not p.
LEMMA BelowOfChild ==
    ASSUME NEW rs, IsForest(rs), NEW p \in Routers, NEW i \in DOMAIN rs[p].children
    PROVE  /\ rs[p].children[i] \in Routers /\ rs[p].children[i] \in Below(rs, p)
           /\ Below(rs, rs[p].children[i]) \subseteq Below(rs, p)
           /\ p \notin Below(rs, rs[p].children[i])
<1>1. rs[p].children[i] \in Range(rs[p].children)
  BY DEF Range
<1>2. rs[p].children[i] \in Routers /\ rs[p].children[i] \in Below(rs, p)
  BY <1>1, BelowSelf, BelowChild, ChildrenListed
<1> QED
  BY <1>1, <1>2, BelowBelow DEF IsForest

\* Of two children, of whatever routers, with something below both, one is the
\* other one, or the parent of one is below the other.
LEMMA ChildrenInLine ==
    ASSUME NEW rs, IsForest(rs), NEW p \in Routers, NEW i \in DOMAIN rs[p].children,
           NEW q \in Routers, NEW k \in DOMAIN rs[q].children,
           NEW y \in Below(rs, rs[p].children[i]), y \in Below(rs, rs[q].children[k])
    PROVE  \/ p = q /\ i = k
           \/ p \in Below(rs, rs[q].children[k])
           \/ q \in Below(rs, rs[p].children[i])
<1> DEFINE a == rs[p].children[i]
           b == rs[q].children[k]
<1>1. a \in Routers /\ b \in Routers /\ a \in Range(rs[p].children) /\ b \in Range(rs[q].children)
  BY BelowOfChild DEF Range
<1>2. a = b => p = q /\ i = k
  BY DEF IsForest
<1> HIDE DEF a, b
<1>3. a \in Below(rs, b) \/ b \in Below(rs, a)
  BY <1>1, AboveInLine DEF a, b
<1>4. a # b => p \in Below(rs, b) \/ q \in Below(rs, a)
  BY <1>1, <1>3, ParentBelow
<1> QED
  BY <1>2, <1>4 DEF a, b

\* Where x is put before y, it is above y or left of it, and y is not before it.
LEMMA CollectedOnce ==
    ASSUME IsForest(routers), NEW x \in Routers, NEW y \in Routers,
           CollectedFirst(x, y), CollectedFirst(y, x)
    PROVE  x = y
<1> DEFINE kid(p, i) == routers[p].children[i]
           Left(u, v) == \E p \in Routers : \E i, j \in DOMAIN routers[p].children :
                           i < j /\ u \in Below(routers, kid(p, i)) /\ v \in Below(routers, kid(p, j))
<1>1. ASSUME NEW u \in Routers, NEW v \in Routers, v \in Below(routers, u) PROVE ~Left(u, v) /\ ~Left(v, u)
  <2> SUFFICES ASSUME NEW p \in Routers, NEW i \in DOMAIN routers[p].children,
                      NEW j \in DOMAIN routers[p].children, i # j,
                      u \in Below(routers, kid(p, i)), v \in Below(routers, kid(p, j))
               PROVE  FALSE
    <3>1. \A p \in Routers : DOMAIN routers[p].children \subseteq Nat
      BY ChildrenListed
    <3> QED
      BY <3>1
  <2>1. v \in Below(routers, kid(p, i))
    BY <1>1, BelowOfChild, BelowBelow
  <2> QED
    BY <2>1, SiblingsApart
<1>2. ASSUME Left(x, y), Left(y, x) PROVE FALSE
  <2>1. PICK p \in Routers : \E i, j \in DOMAIN routers[p].children :
          i < j /\ x \in Below(routers, kid(p, i)) /\ y \in Below(routers, kid(p, j))
    BY <1>2
  <2>2. PICK i \in DOMAIN routers[p].children, j \in DOMAIN routers[p].children :
          i < j /\ x \in Below(routers, kid(p, i)) /\ y \in Below(routers, kid(p, j))
    BY <2>1
  <2>3. PICK q \in Routers : \E k, l \in DOMAIN routers[q].children :
          k < l /\ y \in Below(routers, kid(q, k)) /\ x \in Below(routers, kid(q, l))
    BY <1>2
  <2>4. PICK k \in DOMAIN routers[q].children, l \in DOMAIN routers[q].children :
          k < l /\ y \in Below(routers, kid(q, k)) /\ x \in Below(routers, kid(q, l))
    BY <2>3
  <2>5. i \in Nat /\ j \in Nat /\ k \in Nat /\ l \in Nat
    BY ChildrenListed
  <2>6. \/ p = q /\ i = l
        \/ p \in Below(routers, kid(q, l))
        \/ q \in Below(routers, kid(p, i))
    BY <2>2, <2>4, ChildrenInLine
  <2>7. \/ p = q /\ j = k
        \/ p \in Below(routers, kid(q, k))
        \/ q \in Below(routers, kid(p, j))
    BY <2>2, <2>4, ChildrenInLine
  <2>8. p \notin Below(routers, kid(p, i)) /\ p \notin Below(routers, kid(p, j))
        /\ q \notin Below(routers, kid(q, k)) /\ q \notin Below(routers, kid(q, l))
    BY BelowOfChild
  <2>9. Below(routers, kid(p, i)) \cap Below(routers, kid(p, j)) = {}
    BY <2>2, <2>5, SiblingsApart
  <2>10. Below(routers, kid(q, k)) \cap Below(routers, kid(q, l)) = {}
    BY <2>4, <2>5, SiblingsApart
  <2>11. CASE p = q
    BY <2>2, <2>4, <2>5, <2>6, <2>7, <2>8, <2>11
  <2>12. CASE p # q
    <3>1. p \in Below(routers, kid(q, l)) => y \in Below(routers, kid(q, l))
      BY <2>2, BelowOfChild, BelowBelow
    <3>2. q \in Below(routers, kid(p, i)) => y \in Below(routers, kid(p, i))
      BY <2>4, BelowOfChild, BelowBelow
    <3> QED
      BY <2>2, <2>4, <2>6, <2>9, <2>10, <2>12, <3>1, <3>2
  <2> QED
    BY <2>11, <2>12
<1>3. /\ y \in Below(routers, x) \/ Left(x, y)
      /\ x \in Below(routers, y) \/ Left(y, x)
  BY DEF CollectedFirst
<1> HIDE DEF Left
<1> QED
  BY <1>1, <1>2, <1>3, NotBelowEachOther

\* The order of collection is transitive.
LEMMA CollectedInOrder ==
    ASSUME IsForest(routers), NEW x \in Routers, NEW y \in Routers, NEW z \in Routers,
           CollectedFirst(x, y), CollectedFirst(y, z)
    PROVE  CollectedFirst(x, z)
<1> DEFINE kid(p, i) == routers[p].children[i]
           Split(u, v, p, i, j) == i < j /\ u \in Below(routers, kid(p, i)) /\ v \in Below(routers, kid(p, j))
<1>1. ASSUME NEW u \in Routers, NEW v \in Routers, CollectedFirst(u, v), v \notin Below(routers, u)
      PROVE  \E p \in Routers : \E i, j \in DOMAIN routers[p].children : Split(u, v, p, i, j)
  BY <1>1 DEF CollectedFirst
<1>2. ASSUME NEW u \in Routers, NEW v \in Routers, NEW p \in Routers, NEW i \in DOMAIN routers[p].children,
             NEW j \in DOMAIN routers[p].children, Split(u, v, p, i, j)
      PROVE  CollectedFirst(u, v)
  BY <1>2 DEF CollectedFirst
<1>3. \A p \in Routers : DOMAIN routers[p].children \subseteq Nat
  BY ChildrenListed
<1>4. CASE y \in Below(routers, x) /\ z \in Below(routers, y)
  BY <1>4, BelowBelow DEF CollectedFirst
<1>5. CASE y \in Below(routers, x) /\ z \notin Below(routers, y)
  <2>1. PICK p \in Routers : \E i, j \in DOMAIN routers[p].children : Split(y, z, p, i, j)
    BY <1>1, <1>5
  <2>2. PICK i \in DOMAIN routers[p].children, j \in DOMAIN routers[p].children : Split(y, z, p, i, j)
    BY <2>1
  <2>3. x \in Below(routers, kid(p, i)) \/ kid(p, i) \in Below(routers, x)
    BY <1>5, <2>2, AboveInLine, BelowOfChild
  <2>4. CASE x \in Below(routers, kid(p, i))
    BY <1>2, <2>2, <2>4
  <2>5. CASE x # kid(p, i) /\ kid(p, i) \in Below(routers, x)
    <3>1. kid(p, i) \in Range(routers[p].children)
      BY DEF Range
    <3>2. p \in Below(routers, x)
      BY <2>5, <3>1, ParentBelow
    <3>3. z \in Below(routers, x)
      BY <2>2, <3>2, BelowOfChild, BelowBelow
    <3> QED
      BY <3>3 DEF CollectedFirst
  <2>6. kid(p, i) \in Below(routers, kid(p, i))
    BY BelowOfChild, BelowSelf
  <2> HIDE DEF kid
  <2> QED
    BY <2>3, <2>4, <2>5, <2>6
<1>6. CASE y \notin Below(routers, x) /\ z \in Below(routers, y)
  <2>1. PICK p \in Routers : \E i, j \in DOMAIN routers[p].children : Split(x, y, p, i, j)
    BY <1>1, <1>6
  <2>2. PICK i \in DOMAIN routers[p].children, j \in DOMAIN routers[p].children : Split(x, y, p, i, j)
    BY <2>1
  <2>3. z \in Below(routers, kid(p, j))
    BY <1>6, <2>2, BelowOfChild, BelowBelow
  <2> QED
    BY <1>2, <2>2, <2>3
<1>7. CASE y \notin Below(routers, x) /\ z \notin Below(routers, y)
  <2>1. PICK p \in Routers : \E i, j \in DOMAIN routers[p].children : Split(x, y, p, i, j)
    BY <1>1, <1>7
  <2>2. PICK i \in DOMAIN routers[p].children, j \in DOMAIN routers[p].children : Split(x, y, p, i, j)
    BY <2>1
  <2>3. PICK q \in Routers : \E k, l \in DOMAIN routers[q].children : Split(y, z, q, k, l)
    BY <1>1, <1>7
  <2>4. PICK k \in DOMAIN routers[q].children, l \in DOMAIN routers[q].children : Split(y, z, q, k, l)
    BY <2>3
  <2>5. CASE p = q /\ j = k
    <3>1. i < l
      BY <1>3, <2>2, <2>4, <2>5
    <3>2. Split(x, z, p, i, l)
      BY <2>2, <2>4, <2>5, <3>1
    <3> QED
      BY <1>2, <2>5, <3>2
  <2>6. CASE p \in Below(routers, kid(q, k))
    <3>1. x \in Below(routers, kid(q, k))
      BY <2>2, <2>6, BelowOfChild, BelowBelow
    <3> QED
      BY <1>2, <2>4, <3>1
  <2>7. CASE q \in Below(routers, kid(p, j))
    <3>1. z \in Below(routers, kid(p, j))
      BY <2>4, <2>7, BelowOfChild, BelowBelow
    <3> QED
      BY <1>2, <2>2, <3>1
  <2>8. \/ p = q /\ j = k
        \/ p \in Below(routers, kid(q, k))
        \/ q \in Below(routers, kid(p, j))
    BY <2>2, <2>4, ChildrenInLine
  <2> QED
    BY <2>5, <2>6, <2>7, <2>8
<1> QED
  BY <1>4, <1>5, <1>6, <1>7

\* The routers are finitely many, the base router among them.
LEMMA RoutersFinite == IsFiniteSet(Routers) /\ App \in Routers /\ App \notin SubRouters
BY RouteAssumption, FS_Singleton, FS_Union DEF Routers

\* The routes of all routers are finitely many.
LEMMA RoutesFinite ==
    ASSUME NEW rs, \A r \in Routers : \E n \in Nat : DOMAIN rs[r].routes = 1..n, NEW S \in SUBSET Routers
    PROVE  IsFiniteSet(UNION {{r} \X DOMAIN rs[r].routes : r \in S})
<1> DEFINE Of == [r \in S |-> {r} \X DOMAIN rs[r].routes]
<1>1. IsFiniteSet(S)
  BY RoutersFinite, FS_Subset
<1>2. Of \in Surjection(S, Range(Of))
  BY DEF Surjection, Range
<1>3. IsFiniteSet(Range(Of))
  BY <1>1, <1>2, FS_Surjection
<1>4. \A T \in Range(Of) : IsFiniteSet(T)
  <2> SUFFICES ASSUME NEW r \in S PROVE IsFiniteSet({r} \X DOMAIN rs[r].routes)
    BY DEF Range
  <2>1. PICK n \in Nat : DOMAIN rs[r].routes = 1..n
    OBVIOUS
  <2>2. IsFiniteSet(1..n)
    BY FS_Interval
  <2> QED
    BY <2>1, <2>2, FS_Singleton, FS_Product
<1>5. IsFiniteSet(UNION Range(Of))
  BY <1>3, <1>4, FS_UNION
<1>6. Range(Of) = {{r} \X DOMAIN rs[r].routes : r \in S}
  BY DEF Range
<1> QED
  BY <1>5, <1>6

\* Of the routes with a pattern that somehow qualify one is collected first.
LEMMA FirstOfFound ==
    ASSUME IsForest(routers), \A r \in Routers : \E n \in Nat : DOMAIN routers[r].routes = 1..n,
           NEW found, found \subseteq RegexRoutes, found # {}
    PROVE  \E a \in found : \A b \in found : RouteFirst(a, b)
<1> DEFINE upTo(a) == {b \in found : RouteFirst(b, a)}
           N == {Cardinality(upTo(a)) : a \in found}
<1>1. \A a \in found : a[1] \in Mounted /\ a[1] \in Routers /\ a[2] \in Nat /\ a = <<a[1], a[2]>>
  <2>1. \A a \in found : \E r \in Mounted : a \in {r} \X DOMAIN routers[r].routes
    BY DEF RegexRoutes
  <2>2. Mounted \subseteq Routers
    BY RoutersFinite, BelowSelf DEF Mounted
  <2>3. \A r \in Routers : DOMAIN routers[r].routes \subseteq Nat
    OBVIOUS
  <2> QED
    BY <2>1, <2>2, <2>3
<1>2. IsFiniteSet(found)
  <2>1. Mounted \in SUBSET Routers
    BY RoutersFinite, BelowSelf DEF Mounted
  <2>2. IsFiniteSet(UNION {{r} \X DOMAIN routers[r].routes : r \in Mounted})
    BY <2>1, RoutesFinite
  <2>3. found \subseteq UNION {{r} \X DOMAIN routers[r].routes : r \in Mounted}
    BY DEF RegexRoutes
  <2> QED
    BY <2>2, <2>3, FS_Subset
<1>3. \A a \in found : IsFiniteSet(upTo(a)) /\ Cardinality(upTo(a)) \in Nat
  BY <1>2, FS_Subset, FS_CardinalityType
<1>4. PICK a \in found : \A c \in found : Cardinality(upTo(a)) <= Cardinality(upTo(c))
  <2>1. N \subseteq Nat /\ N # {}
    BY <1>3
  <2>2. PICK m \in N : \A n \in N : m <= n
    <3> HIDE DEF N
    <3> QED
      BY <2>1, LeastOfNaturals
  <2> HIDE DEF upTo
  <2> QED
    BY <2>2
<1>5. ASSUME NEW c \in found PROVE RouteFirst(a, c)
  <2> SUFFICES ASSUME ~RouteFirst(a, c) PROVE FALSE
    OBVIOUS
  <2>1. RouteFirst(c, a)
    BY <1>1, RoutersFinite, CollectedTotal DEF RouteFirst
  <2>2. \A b \in found : RouteFirst(b, c) => RouteFirst(b, a)
    <3> SUFFICES ASSUME NEW b \in found, RouteFirst(b, c) PROVE RouteFirst(b, a)
      OBVIOUS
    <3>1. /\ a[1] \in Routers /\ a[2] \in Nat /\ b[1] \in Routers /\ b[2] \in Nat
          /\ c[1] \in Routers /\ c[2] \in Nat
      BY <1>1
    <3>2. CASE b[1] = c[1] \/ c[1] = a[1]
      BY <2>1, <3>1, <3>2 DEF RouteFirst
    <3>3. CASE b[1] # c[1] /\ c[1] # a[1]
      <4>1. CollectedFirst(b[1], c[1]) /\ CollectedFirst(c[1], a[1])
        BY <2>1, <3>3 DEF RouteFirst
      <4>2. b[1] # a[1]
        BY <3>1, <3>3, <4>1, CollectedOnce
      <4> QED
        BY <3>1, <4>1, <4>2, CollectedInOrder DEF RouteFirst
    <3> QED
      BY <3>2, <3>3
  <2>3. upTo(c) \subseteq upTo(a) /\ a \in upTo(a) /\ a \notin upTo(c)
    BY <1>1, <2>2 DEF RouteFirst
  <2>4. Cardinality(upTo(c)) <= Cardinality(upTo(a)) /\ Cardinality(upTo(c)) # Cardinality(upTo(a))
    <3> HIDE DEF upTo
    <3> QED
      BY <1>3, <2>3, FS_Subset
  <2> HIDE DEF upTo
  <2> QED
    BY <1>3, <1>4, <2>4
<1> QED
  BY <1>5

-----------------------------------------------------------------------------
(* Functions defined along the tree. *)

\* Joining paths gives a path.
LEMMA JoinedIsPath ==
    ASSUME NEW base \in Path, NEW mountPath \in Path
    PROVE  Joined(base, mountPath) \in Path
<1>1. <<>> \in Path
  BY DEF Path
<1> QED
  BY <1>1 DEF Joined, Path

\* Base paths can be given to r and all below it, each one's from its parent's.
LEMMA BasesExist ==
    ASSUME NEW rs, IsForest(rs), NEW r \in Routers, NEW above \in Path,
           \A x \in Below(rs, r) : rs[x].mountPath \in Path
    PROVE  \E f \in [Below(rs, r) -> Path] : \A x \in Below(rs, r) :
              f[x] = Joined(IF x = r THEN above ELSE f[ParentOf(rs, x)], rs[x].mountPath)
<1> DEFINE B == Below(rs, r)
           Fits1(f, x) == f[x] = Joined(IF x = r THEN above ELSE f[ParentOf(rs, x)], rs[x].mountPath)
           Good == {D \in SUBSET B : /\ r \in D /\ \A x \in D \ {r} : ParentOf(rs, x) \in D
                                     /\ \E f \in [D -> Path] : \A x \in D : Fits1(f, x)}
           N == {Cardinality(B) - Cardinality(D) : D \in Good}
<1>0. B \subseteq Routers /\ r \in B /\ IsFiniteSet(B) /\ Cardinality(B) \in Nat
  BY BelowSelf, RoutersFinite, FS_Subset, FS_CardinalityType
<1>1. {r} \in Good
  <2>1. Joined(above, rs[r].mountPath) \in Path
    BY <1>0, JoinedIsPath
  <2> DEFINE f == [x \in {r} |-> Joined(above, rs[r].mountPath)]
  <2>2. f \in [{r} -> Path] /\ \A x \in {r} : Fits1(f, x)
    BY <2>1
  <2> HIDE DEF f
  <2> QED
    BY <1>0, <2>2
<1>2. ASSUME NEW D \in Good, NEW p \in D, NEW z \in Range(rs[p].children), z \notin D
      PROVE  D \cup {z} \in Good
  <2>1. PICK f \in [D -> Path] : \A x \in D : Fits1(f, x)
    OBVIOUS
  <2>2. D \subseteq B /\ p \in Routers /\ z \in B /\ z # r /\ ParentOf(rs, z) = p
    <3>1. D \subseteq B /\ r \in D
      BY <1>2
    <3>2. p \in B /\ p \in Routers /\ z # r
      BY <1>0, <1>2, <3>1
    <3>3. z \in B /\ ParentOf(rs, z) = p
      BY <1>2, <3>2, BelowChild, OneParent
    <3> QED
      BY <3>1, <3>2, <3>3
  <2> DEFINE new == Joined(f[p], rs[z].mountPath)
             g == [x \in D \cup {z} |-> IF x = z THEN new ELSE f[x]]
  <2>3. new \in Path
    BY <1>2, <2>1, <2>2, JoinedIsPath
  <2> HIDE DEF new
  <2>4. g \in [D \cup {z} -> Path]
    BY <2>1, <2>3
  <2>5. \A x \in D : g[x] = f[x] /\ (x = r \/ ParentOf(rs, x) \in D)
    BY <1>2
  <2>6. g[z] = new /\ g[p] = f[p]
    BY <1>2
  <2> HIDE DEF g
  <2>7. \A x \in D : Fits1(g, x)
    BY <2>1, <2>5
  <2>8. Fits1(g, z)
    BY <2>2, <2>6 DEF new
  <2>9. \A x \in (D \cup {z}) \ {r} : ParentOf(rs, x) \in D \cup {z}
    BY <2>2, <1>2
  <2> HIDE DEF Fits1
  <2> QED
    BY <2>2, <2>4, <2>7, <2>8, <2>9
<1>3. \A D \in Good : D \subseteq B /\ IsFiniteSet(D) /\ Cardinality(D) \in Nat /\ Cardinality(D) <= Cardinality(B)
  BY <1>0, FS_Subset, FS_CardinalityType
<1> HIDE DEF Good
<1>4. PICK D \in Good : \A E \in Good : Cardinality(B) - Cardinality(D) <= Cardinality(B) - Cardinality(E)
  <2>1. N \subseteq Nat /\ N # {}
    BY <1>0, <1>1, <1>3
  <2>2. PICK m \in N : \A n \in N : m <= n
    <3> HIDE DEF N
    <3> QED
      BY <2>1, LeastOfNaturals
  <2> QED
    BY <2>2
<1>5. \A p \in B \cap D : Range(rs[p].children) \subseteq D
  <2> SUFFICES ASSUME NEW p \in D, NEW z \in Range(rs[p].children), z \notin D PROVE FALSE
    OBVIOUS
  <2>1. D \cup {z} \in Good
    BY <1>2
  <2>2. Cardinality(D \cup {z}) = Cardinality(D) + 1
    BY <1>3, FS_AddElement
  <2> QED
    BY <1>0, <1>3, <1>4, <2>1, <2>2
<1>6. D = B
  BY <1>3, <1>5, BelowInduction DEF Good
<1> QED
  BY <1>6 DEF Good

\* There is one way to do so.
LEMMA BasesUnique ==
    ASSUME NEW rs, IsForest(rs), NEW r \in Routers, NEW above, NEW f, NEW g,
           \A x \in Below(rs, r) :
              f[x] = Joined(IF x = r THEN above ELSE f[ParentOf(rs, x)], rs[x].mountPath),
           \A x \in Below(rs, r) :
              g[x] = Joined(IF x = r THEN above ELSE g[ParentOf(rs, x)], rs[x].mountPath)
    PROVE  \A x \in Below(rs, r) : f[x] = g[x]
<1> DEFINE S == {x \in Below(rs, r) : f[x] = g[x]}
<1>1. r \in S
  BY BelowSelf
<1>2. \A p \in Below(rs, r) \cap S : Range(rs[p].children) \subseteq S
  <2> SUFFICES ASSUME NEW p \in Below(rs, r), f[p] = g[p], NEW x \in Range(rs[p].children)
               PROVE  x \in Below(rs, r) /\ f[x] = g[x]
    OBVIOUS
  <2>1. p \in Routers /\ x \in Below(rs, r) /\ ParentOf(rs, x) = p
    BY BelowSelf, BelowChild, OneParent
  <2> QED
    BY <2>1
<1> HIDE DEF S
<1>3. Below(rs, r) \subseteq S
  BY <1>1, <1>2, BelowInduction
<1> QED
  BY <1>3 DEF S

-----------------------------------------------------------------------------
(* Patterns. *)

\* Places gives every parameter of a pattern, from left to right.
LEMMA PlacesInOrder ==
    ASSUME NEW pattern \in Path
    PROVE  /\ \E n \in Nat : DOMAIN Places(pattern) = 1..n
           /\ \A k \in DOMAIN Places(pattern) :
                Places(pattern)[k] \in DOMAIN pattern /\ pattern[Places(pattern)[k]] \in Params
           /\ \A i \in DOMAIN pattern :
                pattern[i] \in Params => \E k \in DOMAIN Places(pattern) : Places(pattern)[k] = i
           /\ \A k, l \in DOMAIN Places(pattern) : k < l => Places(pattern)[k] < Places(pattern)[l]
<1> DEFINE at == {i \in DOMAIN pattern : pattern[i] \in Params}
           upTo(i) == {j \in at : j <= i}
           rank == [i \in at |-> Cardinality(upTo(i))]
           n == Cardinality(at)
<1>1. at \subseteq Nat /\ IsFiniteSet(at) /\ n \in Nat
  <2>1. Len(pattern) \in Nat /\ DOMAIN pattern = 1..Len(pattern)
    BY DEF Path
  <2>2. IsFiniteSet(1..Len(pattern)) /\ at \in SUBSET (1..Len(pattern))
    BY <2>1, FS_Interval
  <2>3. IsFiniteSet(at)
    BY <2>2, FS_Subset
  <2> QED
    BY <2>1, <2>3, FS_CardinalityType
<1>2. Places(pattern) = [k \in 1..n |-> CHOOSE i \in at : Cardinality(upTo(i)) = k]
  BY DEF Places
<1> HIDE DEF at
<1>3. ASSUME NEW i \in at
      PROVE  /\ IsFiniteSet(upTo(i)) /\ Cardinality(upTo(i)) \in 1..n
             /\ i \in upTo(i) /\ upTo(i) \subseteq at
  <2>1. i \in upTo(i) /\ upTo(i) \in SUBSET at
    BY <1>1
  <2>2. IsFiniteSet(upTo(i)) /\ Cardinality(upTo(i)) <= n /\ Cardinality(upTo(i)) \in Nat
    BY <1>1, <2>1, FS_Subset, FS_CardinalityType
  <2>3. Cardinality(upTo(i)) # 0
    BY <2>1, <2>2, FS_EmptySet
  <2> HIDE DEF upTo, n
  <2> QED
    BY <1>1, <2>1, <2>2, <2>3
<1>4. ASSUME NEW i \in at, NEW j \in at, i < j
      PROVE  Cardinality(upTo(i)) < Cardinality(upTo(j))
  <2>1. upTo(i) \in SUBSET upTo(j) /\ j \in upTo(j) /\ j \notin upTo(i)
    <3>1. i \in Nat /\ j \in Nat /\ \A x \in at : x \in Nat
      BY <1>1
    <3>2. \A x \in at : x <= i => x <= j
      BY <1>4, <3>1
    <3>3. upTo(i) \in SUBSET upTo(j)
      BY <3>2
    <3>4. j <= j /\ ~(j <= i)
      BY <1>4, <3>1
    <3> QED
      BY <3>3, <3>4
  <2>2. Cardinality(upTo(i)) <= Cardinality(upTo(j)) /\ Cardinality(upTo(i)) # Cardinality(upTo(j))
    <3> HIDE DEF upTo
    <3> QED
      BY <1>3, <2>1, FS_Subset
  <2>3. Cardinality(upTo(i)) \in Nat /\ Cardinality(upTo(j)) \in Nat
    BY <1>3, <1>1
  <2> HIDE DEF upTo
  <2> QED
    BY <2>2, <2>3
<1>5. \A k \in 1..n : \E i \in at : Cardinality(upTo(i)) = k
  <2>1. rank \in [at -> 1..n]
    BY <1>3
  <2>2. \A i, j \in at : rank[i] = rank[j] => i = j
    <3> SUFFICES ASSUME NEW i \in at, NEW j \in at, i # j PROVE rank[i] # rank[j]
      OBVIOUS
    <3>1. rank[i] \in Int /\ rank[j] \in Int
      BY <1>1, <2>1
    <3>2. i < j \/ j < i
      BY <1>1
    <3> QED
      BY <1>4, <3>1, <3>2
  <2>3. rank \in Injection(at, 1..n)
    <3> HIDE DEF rank, n
    <3> QED
      BY <2>1, <2>2 DEF Injection, IsInjective
  <2>4. IsFiniteSet(1..n) /\ Cardinality(1..n) = n
    BY <1>1, FS_Interval
  <2>5. rank \in Surjection(at, 1..n)
    <3> HIDE DEF rank
    <3> QED
      BY <2>3, <2>4, FS_Injection
  <2> QED
    BY <2>5 DEF Surjection
<1> DEFINE P == Places(pattern)
<1>6. \A k \in 1..n : P[k] \in at /\ Cardinality(upTo(P[k])) = k
  BY <1>2, <1>5
<1>7. DOMAIN P = 1..n
  BY <1>2
<1> HIDE DEF P, upTo, n
<1>8. \A k, l \in 1..n : k < l => P[k] < P[l]
  <2> SUFFICES ASSUME NEW k \in 1..n, NEW l \in 1..n, k < l, ~(P[k] < P[l]) PROVE FALSE
    OBVIOUS
  <2>1. P[k] \in Nat /\ P[l] \in Nat
    BY <1>1, <1>6
  <2>2. P[l] < P[k] \/ P[l] = P[k]
    BY <2>1
  <2>3. Cardinality(upTo(P[l])) < Cardinality(upTo(P[k])) \/ P[l] = P[k]
    BY <1>4, <1>6, <2>2
  <2> QED
    BY <1>1, <1>6, <2>3
<1>9. \A i \in at : \E k \in 1..n : P[k] = i
  <2> SUFFICES ASSUME NEW i \in at PROVE P[Cardinality(upTo(i))] = i
    BY <1>3
  <2> DEFINE k == Cardinality(upTo(i))
  <2>1. k \in 1..n /\ P[k] \in at /\ Cardinality(upTo(P[k])) = k
    BY <1>3, <1>6
  <2>2. P[k] < i \/ i < P[k] \/ P[k] = i
    <3> HIDE DEF k
    <3>1. P[k] \in Nat /\ i \in Nat
      BY <1>1, <2>1
    <3> QED
      BY <3>1
  <2>3. k \in Int
    BY <1>1, <2>1
  <2> QED
    BY <1>4, <2>1, <2>2, <2>3
<1> QED
  BY <1>1, <1>6, <1>7, <1>8, <1>9 DEF P, at

\* Keys and values are sequences of parameters and of words.
LEMMA KeysAndValues ==
    ASSUME NEW pattern \in Path, NEW path \in Seq(Words), Len(pattern) = Len(path)
    PROVE  Keys(pattern) \in Seq(Params) /\ Values(pattern, path) \in Seq(Words)
<1>1. PICK n \in Nat : DOMAIN Places(pattern) = 1..n
  BY PlacesInOrder
<1>2. \A k \in 1..n : Places(pattern)[k] \in DOMAIN pattern /\ pattern[Places(pattern)[k]] \in Params
  BY <1>1, PlacesInOrder
<1>3. DOMAIN pattern = DOMAIN path
  BY DEF Path
<1>4. Keys(pattern) \in [1..n -> Params] /\ Values(pattern, path) \in [1..n -> Words]
  BY <1>1, <1>2, <1>3 DEF Keys, Values
<1> QED
  BY <1>4

\* Paths joined.
LEMMA Concatenated ==
    ASSUME NEW p \in Path, NEW q \in Path
    PROVE  /\ p \o q \in Path /\ Len(p \o q) = Len(p) + Len(q)
           /\ \A i \in 1..Len(p) : (p \o q)[i] = p[i]
           /\ \A i \in 1..Len(q) : (p \o q)[Len(p) + i] = q[i]
           /\ HasParam(p \o q) <=> HasParam(p) \/ HasParam(q)
<1>1. /\ p \o q \in Path /\ Len(p \o q) = Len(p) + Len(q)
      /\ \A i \in 1..Len(p) : (p \o q)[i] = p[i]
      /\ \A i \in 1..Len(q) : (p \o q)[Len(p) + i] = q[i]
  BY DEF Path
<1>2. /\ DOMAIN p = 1..Len(p) /\ DOMAIN q = 1..Len(q) /\ DOMAIN (p \o q) = 1..Len(p)+Len(q)
      /\ Len(p) \in Nat /\ Len(q) \in Nat
  BY DEF Path
<1>3. \A i \in 1..Len(p)+Len(q) : i \in 1..Len(p) \/ (i - Len(p) \in 1..Len(q) /\ i = Len(p) + (i - Len(p)))
  BY <1>2
<1>4. /\ 1..Len(p) \subseteq 1..Len(p)+Len(q)
      /\ \A i \in 1..Len(q) : Len(p) + i \in 1..Len(p)+Len(q)
  BY <1>2
<1>5. ASSUME HasParam(p \o q) PROVE HasParam(p) \/ HasParam(q)
  <2>1. PICK i \in 1..Len(p)+Len(q) : (p \o q)[i] \in Params
    BY <1>2, <1>5 DEF HasParam
  <2>2. CASE i \in 1..Len(p)
    BY <1>1, <1>2, <2>1, <2>2 DEF HasParam
  <2>3. CASE i - Len(p) \in 1..Len(q) /\ i = Len(p) + (i - Len(p))
    <3>1. q[i - Len(p)] = (p \o q)[i]
      BY <1>1, <2>3
    <3> QED
      BY <1>2, <2>1, <2>3, <3>1 DEF HasParam
  <2> QED
    BY <1>3, <2>2, <2>3
<1>6. ASSUME HasParam(p) \/ HasParam(q) PROVE HasParam(p \o q)
  BY <1>1, <1>2, <1>4, <1>6 DEF HasParam
<1> QED
  BY <1>1, <1>5, <1>6

\* A request's path has no parameters: the same path serves it.
LEMMA OwnPathServes ==
    ASSUME NEW path \in Seq(Words)
    PROVE  ~HasParam(path) /\ Serves(path, path)
<1>1. DOMAIN path = 1..Len(path) /\ \A i \in 1..Len(path) : path[i] \in Words
  OBVIOUS
<1>2. ~HasParam(path)
  BY <1>1, RouteAssumption DEF HasParam
<1> QED
  BY <1>2 DEF Serves

-----------------------------------------------------------------------------
(* The invariant. *)

\* The path that a pattern for the i-th route of r stands for.
Full(r, i) == routers[r].basePath \o routers[r].routes[i].path

\* A router has a base path as long as it is mounted, made of its parent's.
BasesOK ==
    /\ routers[App].basePath = <<>>
    /\ \A r \in Routers : routers[r].basePath # NULL <=> r \in Mounted
    /\ \A p \in Routers : \A r \in Range(routers[p].children) :
         /\ routers[r].mountPath # NULL
         /\ p \in Mounted =>
              routers[r].basePath = Joined(routers[p].basePath, routers[r].mountPath)

\* Of a mounted router, routes have patterns if their whole path has parameters,
\* unless they came late; of the others, no route has one.
RoutesOK ==
    /\ \A r \in Routers : Len(routers[r].routes) <= MaxRoutes
    /\ \A at \in late : at[1] \in Mounted \ {App}
    /\ \A r \in Routers : \A i \in DOMAIN routers[r].routes :
         LET route == routers[r].routes[i] IN
         IF r \in Mounted /\ <<r, i>> \notin late
           THEN /\ route.regex = HasParam(Full(r, i))
                /\ route.paramMatch = IF route.regex THEN Full(r, i) ELSE NULL
           ELSE route.regex = HasParam(route.path) /\ route.paramMatch = NULL

PatternAt(at) == routers[at[1]].routes[at[2]].paramMatch

\* A request has the parameters of a pattern that matches it, if there is any.
RequestOK ==
    phase # "setup" =>
        /\ request.path \in RequestPaths
        /\ \/ /\ \A at \in RegexRoutes : ~Matches(PatternAt(at), request.path)
              /\ request.pathMatch = <<>>
           \/ \E at \in RegexRoutes :
                /\ Matches(PatternAt(at), request.path)
                /\ request.pathMatch = PatternAt(at)
                /\ request.keys = Keys(PatternAt(at))
                /\ request.values = Values(PatternAt(at), request.path)

\* Every router was asked that is reached through routers which match.
ChosenOK ==
    phase = "served" =>
        \A r \in Routers :
            chosen[r] = IF r \in Mounted
                           /\ \A a \in Mounted : r \in Below(routers, a) => RouterMatchesRequest(a)
                          THEN MatchRouteHandler(r) ELSE 0

RouteInv == TypeOK /\ IsForest(routers) /\ BasesOK /\ RoutesOK /\ RequestOK /\ ChosenOK

\* What the types say of one router.
LEMMA RouterTypes ==
    ASSUME TypeOK, NEW r \in Routers
    PROVE  /\ routers[r].basePath \in Path \cup {NULL} /\ routers[r].mountPath \in Path \cup {NULL}
           /\ routers[r].children \in Seq(SubRouters) /\ routers[r].routes \in Seq(Route)
           /\ Len(routers[r].routes) \in Nat
           /\ DOMAIN routers[r].routes = 1..Len(routers[r].routes)
           /\ \A i \in DOMAIN routers[r].routes :
                routers[r].routes[i] \in Route /\ routers[r].routes[i].path \in Path
<1>1. routers[r] \in Router
  BY DEF TypeOK
<1>2. routers[r].routes \in Seq(Route)
  BY <1>1 DEF Router
<1>3. \A i \in DOMAIN routers[r].routes : routers[r].routes[i] \in Route
  BY <1>2
<1> QED
  BY <1>1, <1>2, <1>3 DEF Router, Route

\* Routers that are mounted have a base path.
LEMMA MountedTypes ==
    ASSUME TypeOK, BasesOK, NEW r \in Mounted
    PROVE  /\ r \in Routers /\ routers[r].basePath \in Path
           /\ \A i \in DOMAIN routers[r].routes : Full(r, i) \in Path
<1>1. r \in Routers
  BY RoutersFinite, BelowSelf DEF Mounted
<1>2. routers[r].basePath \in Path
  BY <1>1, RouterTypes DEF BasesOK
<1> QED
  BY <1>1, <1>2, RouterTypes, Concatenated DEF Full

\* Nothing is mounted on what is not mounted, and mounted all the same.
LEMMA MountedParent ==
    ASSUME IsForest(routers), NEW r \in Mounted, r # App
    PROVE  /\ ParentOf(routers, r) \in Mounted /\ r \in Range(routers[ParentOf(routers, r)].children)
<1>1. PICK p \in Mounted : r \in Range(routers[p].children)
  BY RoutersFinite, BelowHasParent DEF Mounted
<1>2. p \in Routers
  BY RoutersFinite, BelowSelf DEF Mounted
<1> QED
  BY <1>1, <1>2, OneParent

\* What is written is what the base paths say.
LEMMA WrittenIsFull ==
    ASSUME TypeOK, IsForest(routers), BasesOK
    PROVE  Written = [r \in Mounted |-> [i \in DOMAIN routers[r].routes |->
                         IF Full(r, i) = <<>> THEN Root ELSE Full(r, i)]]
<1> DEFINE step(f, r) == IF r = App THEN <<>> ELSE Joined(f[ParentOf(routers, r)], routers[r].mountPath)
           base == CHOOSE f : f = [r \in Mounted |-> step(f, r)]
           have == [r \in Mounted |-> routers[r].basePath]
<1>1. \A r \in Mounted : have[r] = step(have, r)
  <2> SUFFICES ASSUME NEW r \in Mounted PROVE have[r] = step(have, r)
    OBVIOUS
  <2>1. CASE r = App
    BY <2>1 DEF BasesOK
  <2>2. CASE r # App
    <3>1. ParentOf(routers, r) \in Mounted /\ r \in Range(routers[ParentOf(routers, r)].children)
      BY <2>2, MountedParent
    <3>2. ParentOf(routers, r) \in Routers
      BY <3>1, MountedTypes
    <3> QED
      BY <2>2, <3>1, <3>2 DEF BasesOK
  <2> QED
    BY <2>1, <2>2
<1>2. have = [r \in Mounted |-> step(have, r)]
  BY <1>1
<1>3. base = [r \in Mounted |-> step(base, r)]
  <2> HIDE DEF have, step
  <2> QED
    BY <1>2
<1> HIDE DEF base
<1>4. \A r \in Mounted : base[r] = step(base, r)
  BY <1>3
<1>5. \A r \in Mounted : base[r] = have[r]
  <2> DEFINE S == {r \in Mounted : base[r] = have[r]}
  <2>1. App \in S
    BY <1>1, <1>4, RoutersFinite, BelowSelf DEF Mounted
  <2>2. \A p \in Mounted \cap S : Range(routers[p].children) \subseteq S
    <3> SUFFICES ASSUME NEW p \in Mounted, base[p] = have[p], NEW r \in Range(routers[p].children)
                 PROVE  r \in Mounted /\ base[r] = have[r]
      OBVIOUS
    <3>1. p \in Routers /\ r \in Mounted /\ ParentOf(routers, r) = p
      BY MountedTypes, BelowChild, OneParent DEF Mounted
    <3> HIDE DEF have
    <3> QED
      BY <1>1, <1>4, <3>1
  <2> HIDE DEF S
  <2>3. Mounted \subseteq S
    BY <2>1, <2>2, RoutersFinite, BelowInduction DEF Mounted
  <2> QED
    BY <2>3 DEF S
<1>6. Written = [r \in Mounted |-> [i \in DOMAIN routers[r].routes |->
                    IF base[r] \o routers[r].routes[i].path = <<>> THEN Root
                    ELSE base[r] \o routers[r].routes[i].path]]
  BY DEF Written, base
<1> QED
  BY <1>5, <1>6 DEF Full

\* Joining paths is associative.
LEMMA Regrouped ==
    ASSUME NEW p \in Path, NEW q \in Path, NEW s \in Path
    PROVE  (p \o q) \o s = p \o (q \o s)
<1>1. /\ Len((p \o q) \o s) = Len(p) + Len(q) + Len(s) /\ Len(p \o (q \o s)) = Len(p) + Len(q) + Len(s)
      /\ (p \o q) \o s \in Path /\ p \o (q \o s) \in Path
      /\ Len(p) \in Nat /\ Len(q) \in Nat /\ Len(s) \in Nat
  BY Concatenated DEF Path
<1>2. ASSUME NEW i \in 1..Len(p) + Len(q) + Len(s) PROVE ((p \o q) \o s)[i] = (p \o (q \o s))[i]
  BY <1>1 DEF Path
<1> QED
  BY <1>1, <1>2 DEF Path

\* A route's whole path begins with the base paths of all routers above it.
LEMMA BaseBegins ==
    ASSUME TypeOK, IsForest(routers), BasesOK, NEW a \in Mounted, NEW r \in Below(routers, a)
    PROVE  r \in Mounted /\ \E rest \in Path : routers[r].basePath = routers[a].basePath \o rest
<1> DEFINE S == {x \in Mounted : \E rest \in Path : routers[x].basePath = routers[a].basePath \o rest}
<1>0. <<>> \in Path
  BY DEF Path
<1>1. a \in S
  <2>1. routers[a].basePath = routers[a].basePath \o <<>>
    BY MountedTypes DEF Path
  <2> QED
    BY <1>0, <2>1
<1>2. \A p \in Below(routers, a) \cap S : Range(routers[p].children) \subseteq S
  <2> SUFFICES ASSUME NEW p \in S, NEW x \in Range(routers[p].children) PROVE x \in S
    OBVIOUS
  <2>1. p \in Mounted /\ p \in Routers /\ x \in Mounted /\ x \in Routers
    BY MountedTypes, BelowChild, RoutersFinite DEF Mounted
  <2>2. PICK rest \in Path : routers[p].basePath = routers[a].basePath \o rest
    OBVIOUS
  <2>3. routers[x].basePath = Joined(routers[p].basePath, routers[x].mountPath)
        /\ routers[x].mountPath \in Path
    BY <2>1, RouterTypes DEF BasesOK
  <2>4. CASE routers[x].basePath = routers[p].basePath
    BY <2>1, <2>2, <2>4
  <2>5. CASE routers[x].basePath = routers[p].basePath \o routers[x].mountPath
    <3>1. rest \o routers[x].mountPath \in Path
      BY <2>3, Concatenated
    <3>2. routers[x].basePath = routers[a].basePath \o (rest \o routers[x].mountPath)
      <4>1. routers[a].basePath \in Path /\ routers[x].mountPath \in Path
        BY <2>3, MountedTypes
      <4>2. (routers[a].basePath \o rest) \o routers[x].mountPath
              = routers[a].basePath \o (rest \o routers[x].mountPath)
        BY <4>1, Regrouped
      <4> QED
        BY <2>2, <2>5, <4>2
    <3> QED
      BY <2>1, <3>1, <3>2
  <2> QED
    BY <2>3, <2>4, <2>5 DEF Joined
<1> HIDE DEF S
<1>3. r \in S
  BY <1>1, <1>2, BelowInduction, MountedTypes
<1> QED
  BY <1>3 DEF S

\* Where a path serves that begins with r's base path and has the request's words,
\* the router matches.
LEMMA BeginningMatches ==
    ASSUME NEW r, NEW rest \in Path, routers[r].basePath \in Path, request.path \in Seq(Words),
           Serves(routers[r].basePath \o rest, request.path),
           HasParam(routers[r].basePath \o rest)
             => Spelled(routers[r].basePath \o rest, request.path)
    PROVE  RouterMatchesRequest(r)
<1> DEFINE base == routers[r].basePath
           path == request.path
<1>0. Words \cap Params = {}
  BY RouteAssumption
<1>1. Len(base) \in Nat /\ Len(rest) \in Nat /\ Len(path) \in Nat
      /\ DOMAIN base = 1..Len(base) /\ DOMAIN path = 1..Len(path)
  BY DEF Path
<1>2. /\ Len(path) = Len(base) + Len(rest)
      /\ \A i \in 1..Len(base) : base[i] \in Params \/ base[i] = path[i]
      /\ HasParam(base) => \A i \in 1..Len(base) : Fits(base[i], path[i])
  <2> DEFINE full == base \o rest
  <2>1. /\ full \in Path /\ Len(full) = Len(base) + Len(rest) /\ DOMAIN full = 1..Len(full)
        /\ \A i \in 1..Len(base) : full[i] = base[i]
        /\ HasParam(base) => HasParam(full)
    BY Concatenated DEF Path
  <2>2. CASE HasParam(full)
    <3>1. /\ Len(full) = Len(path) /\ \A i \in 1..Len(path) : Fits(full[i], path[i])
          /\ \A i \in 1..Len(full) : full[i] \in Params \/ full[i] = path[i]
      BY <1>1, <2>1, <2>2 DEF Serves, Matches, Spelled
    <3>2. 1..Len(base) \subseteq 1..Len(path) /\ 1..Len(base) \subseteq 1..Len(full)
      BY <1>1, <2>1, <3>1
    <3> HIDE DEF full, base, path
    <3> QED
      BY <2>1, <3>1, <3>2
  <2>3. CASE ~HasParam(full)
    <3>1. full = path
      BY <2>3 DEF Serves
    <3> HIDE DEF full, base, path
    <3> QED
      BY <2>1, <2>3, <3>1
  <2> QED
    BY <2>2, <2>3
<1> HIDE DEF base, path
<1>3. CASE HasParam(base)
  <2>1. ASSUME NEW i \in 1..Len(base)
        PROVE  IF i < Len(base) THEN Fits(base[i], path[i])
               ELSE \/ base[i] \in Params
                    \/ \E w \in Words : Fits(base[i], w) /\ BeginsWith(w, path[i])
    <3>1. Fits(base[i], path[i]) /\ path[i] \in Words
      BY <1>1, <1>2, <1>3 DEF path
    <3>2. BeginsWith(path[i], path[i])
      BY DEF BeginsWith
    <3> QED
      BY <3>1, <3>2
  <2>2. MatchesStart(base, path)
    BY <1>1, <1>2, <2>1 DEF MatchesStart
  <2> QED
    BY <1>3, <2>2 DEF RouterMatchesRequest, base, path
<1>4. CASE ~HasParam(base)
  <2>1. \A i \in 1..Len(base) : base[i] = path[i]
    BY <1>1, <1>2, <1>4 DEF HasParam
  <2>2. IsStart(base, path)
    BY <1>1, <1>2, <2>1 DEF IsStart, BeginsWith
  <2> QED
    BY <1>4, <2>2 DEF RouterMatchesRequest, base, path
<1> QED
  BY <1>3, <1>4

\* A sequence with a length is not the empty one.
LEMMA NotEmpty ==
    ASSUME NEW S, NEW s \in Seq(S), Len(s) # 0
    PROVE  s # <<>>
OBVIOUS

\* The sequence of one element.
LEMMA OfOne ==
    ASSUME NEW S, NEW x \in S
    PROVE  <<x>> \in Seq(S) /\ Len(<<x>>) = 1 /\ <<x>>[1] = x /\ DOMAIN <<x>> = 1..1 /\ <<x>> # <<>>
<1> DEFINE q == <<x>>
<1>1. q \in Seq(S) /\ Len(q) = 1 /\ q[1] = x
  OBVIOUS
<1> HIDE DEF q
<1>2. DOMAIN q = 1..1
  BY <1>1
<1>3. q # <<>>
  <2>1. Len(q) # 0
    BY <1>1
  <2> QED
    BY <1>1, <2>1, NotEmpty
<1> QED
  BY <1>1, <1>2, <1>3 DEF q

\* "" and "/".
LEMMA RootPath ==
    /\ <<>> \in Path /\ Root \in Path /\ ~HasParam(<<>>) /\ ~HasParam(Root)
    /\ Root # <<>> /\ Len(Root) = 1 /\ Root \in Seq(Words)
<1>1. "" \in Words /\ "" \notin Params
  BY RouteAssumption
<1>2. Root \in Seq(Words) /\ Len(Root) = 1 /\ Root[1] = ""
  BY <1>1, OfOne DEF Root
<1>3. Root \in Path
  BY <1>1, OfOne DEF Root, Path
<1>4. DOMAIN Root = 1..1 /\ Root # <<>>
  BY <1>1, OfOne DEF Root
<1>5. \A i \in 1..1 : i = 1
  OBVIOUS
<1>6. ~HasParam(Root)
  BY <1>1, <1>2, <1>4, <1>5 DEF HasParam
<1>7. PICK e : e = <<>>
  OBVIOUS
<1>8. e \in Path /\ Len(e) = 0 /\ DOMAIN e = {}
  BY <1>7 DEF Path
<1>9. ~HasParam(e)
  BY <1>8 DEF HasParam
<1> QED
  BY <1>2, <1>3, <1>4, <1>6, <1>7, <1>8, <1>9

\* Patterns are whole paths of routes that are not late, and have parameters.
LEMMA PatternsAreFull ==
    ASSUME RouteInv, NEW at \in RegexRoutes
    PROVE  /\ at[1] \in Mounted /\ at[2] \in DOMAIN routers[at[1]].routes
           /\ PatternAt(at) = Full(at[1], at[2]) /\ HasParam(PatternAt(at)) /\ PatternAt(at) \in Path
<1>1. /\ at[1] \in Mounted /\ at[2] \in DOMAIN routers[at[1]].routes /\ PatternAt(at) # NULL
      /\ at = <<at[1], at[2]>>
  BY DEF RegexRoutes, PatternAt
<1>2. at[1] \in Routers /\ Full(at[1], at[2]) \in Path
  BY <1>1, MountedTypes DEF RouteInv
<1> QED
  BY <1>1, <1>2 DEF RouteInv, RoutesOK, PatternAt

\* A route that is taken has a path that matches.
LEMMA TakenMatches ==
    ASSUME RouteInv, phase # "setup", NEW r \in Mounted, NEW i \in DOMAIN routers[r].routes,
           Takes(r, routers[r].routes[i])
    PROVE  /\ routers[r].routes[i].method = request.method /\ Serves(Written[r][i], request.path)
           /\ HasParam(Full(r, i)) =>
                /\ Written[r][i] = Full(r, i)
                /\ request.keys = Keys(Full(r, i)) /\ request.values = Values(Full(r, i), request.path)
<1> DEFINE full == Full(r, i)
<1>1. /\ r \in Routers /\ full \in Path /\ request.path \in Seq(Words) /\ Len(request.path) > 0
      /\ Written[r][i] = IF full = <<>> THEN Root ELSE full
  <2>1. r \in Routers /\ full \in Path
    BY MountedTypes DEF RouteInv
  <2>2. request.path \in RequestPaths
    BY DEF RouteInv, RequestOK
  <2>3. request.path \in Seq(Words) /\ Len(request.path) > 0
    BY <2>2, RouteAssumption
  <2>4. Written[r][i] = IF full = <<>> THEN Root ELSE full
    BY WrittenIsFull DEF RouteInv
  <2> QED
    BY <2>1, <2>3, <2>4
<1>2. routers[r].routes[i].method = request.method
  BY DEF Takes
<1>3. ASSUME full = request.pathMatch, routers[r].routes[i].regex
      PROVE  \E at \in RegexRoutes : /\ Matches(PatternAt(at), request.path) /\ full = PatternAt(at)
                                     /\ request.keys = Keys(full) /\ request.values = Values(full, request.path)
  <2>1. HasParam(full)
    <3>1. HasParam(full) \/ HasParam(routers[r].routes[i].path)
      BY <1>1, <1>3 DEF RouteInv, RoutesOK
    <3> QED
      BY <1>1, <3>1, MountedTypes, RouterTypes, Concatenated DEF Full, RouteInv
  <2>2. full # <<>>
    BY <2>1, RootPath
  <2> QED
    BY <1>3, <2>2 DEF RouteInv, RequestOK
<1>4. CASE full = request.pathMatch /\ routers[r].routes[i].regex
  <2>1. HasParam(full) /\ Matches(full, request.path)
    BY <1>3, <1>4, PatternsAreFull
  <2>2. full # <<>> /\ Serves(full, request.path)
    BY <2>1, RootPath DEF Serves
  <2> QED
    BY <1>1, <1>2, <1>3, <1>4, <2>1, <2>2
<1>5. CASE full = request.path
  <2>1. Serves(full, request.path) /\ ~HasParam(full)
    BY <1>1, <1>5, OwnPathServes
  <2>2. full # <<>>
    BY <1>1, <1>5
  <2> QED
    BY <1>1, <1>2, <2>1, <2>2
<1>6. CASE full = <<>> /\ request.path = Root
  <2>1. Serves(Root, Root)
    BY <1>1, <1>6, OwnPathServes
  <2> QED
    BY <1>1, <1>2, <1>6, <2>1, RootPath
<1> QED
  BY <1>4, <1>5, <1>6 DEF Takes, Full

\* The paths with parameters that match the request, of whatever router.
Patterns == {p \in UNION {Range(Written[r]) : r \in DOMAIN Written} : HasParam(p) /\ Matches(p, request.path)}

\* They are finitely many.
LEMMA PatternsFinite ==
    ASSUME RouteInv
    PROVE  IsFiniteSet(Patterns)
<1> DEFINE T == UNION {{r} \X DOMAIN routers[r].routes : r \in Mounted}
           f == [at \in T |-> Written[at[1]][at[2]]]
<1>1. IsFiniteSet(T)
  <2>1. \A r \in Routers : \E n \in Nat : DOMAIN routers[r].routes = 1..n
    BY RouterTypes DEF RouteInv
  <2>2. Mounted \in SUBSET Routers
    BY MountedTypes DEF RouteInv
  <2> QED
    BY <2>1, <2>2, RoutesFinite
<1>2. IsFiniteSet(Range(f))
  <2>1. f \in Surjection(T, Range(f))
    BY DEF Surjection, Range
  <2> HIDE DEF f, T
  <2> QED
    BY <1>1, <2>1, FS_Surjection
<1>3. Patterns \subseteq Range(f)
  <2> SUFFICES ASSUME NEW p \in Patterns PROVE p \in Range(f)
    OBVIOUS
  <2>1. DOMAIN Written = Mounted /\ \A r \in Mounted : DOMAIN Written[r] = DOMAIN routers[r].routes
    BY WrittenIsFull DEF RouteInv
  <2>2. PICK r \in Mounted : p \in Range(Written[r])
    BY <2>1 DEF Patterns
  <2>3. PICK i \in DOMAIN routers[r].routes : p = Written[r][i]
    BY <2>1, <2>2 DEF Range
  <2>4. <<r, i>> \in T /\ f[<<r, i>>] = p
    BY <2>3
  <2> QED
    BY <2>4 DEF Range
<1> QED
  BY <1>2, <1>3, FS_Subset

\* A route is taken whose path matches: unless it has no pattern, or another
\* pattern matches too.
LEMMA MatchingTaken ==
    ASSUME RouteInv, phase # "setup", NEW r \in Mounted, NEW i \in DOMAIN routers[r].routes,
           routers[r].routes[i].method = request.method, Serves(Written[r][i], request.path),
           ~(<<r, i>> \in late /\ HasParam(Written[r][i])), Cardinality(Patterns) <= 1
    PROVE  Takes(r, routers[r].routes[i])
<1> DEFINE full == Full(r, i)
           w == Written[r][i]
<1>1. r \in Routers /\ full \in Path
  BY MountedTypes DEF RouteInv
<1>2. request.path \in Seq(Words) /\ Len(request.path) > 0 /\ request.path \in RequestPaths
  BY RouteAssumption DEF RouteInv, RequestOK
<1>3. w = IF full = <<>> THEN Root ELSE full
  BY WrittenIsFull DEF RouteInv
<1>4. w \in Path
  BY <1>1, <1>3, RootPath
<1>5. CASE ~HasParam(w)
  <2>1. w = request.path
    BY <1>5 DEF Serves
  <2> QED
    BY <1>3, <2>1 DEF Takes, Full
<1>6. CASE HasParam(w)
  <2>1. w = full
    BY <1>3, <1>6, RootPath
  <2>2. routers[r].routes[i].regex /\ routers[r].routes[i].paramMatch = full /\ full # NULL
    <3>1. full # NULL
      BY <1>1, RouteAssumption DEF Path
    <3> QED
      BY <1>1, <1>6, <2>1, <3>1 DEF RouteInv, RoutesOK
  <2>3. <<r, i>> \in RegexRoutes /\ PatternAt(<<r, i>>) = full
    BY <2>2 DEF RegexRoutes, PatternAt
  <2>4. PICK at \in RegexRoutes : Matches(PatternAt(at), request.path) /\ request.pathMatch = PatternAt(at)
    BY <1>6, <2>1, <2>3 DEF RouteInv, RequestOK, Serves
  <2>5. \A b \in RegexRoutes : Matches(PatternAt(b), request.path) => PatternAt(b) \in Patterns
    <3> SUFFICES ASSUME NEW b \in RegexRoutes, Matches(PatternAt(b), request.path)
                 PROVE  PatternAt(b) \in Patterns
      OBVIOUS
    <3>1. /\ b[1] \in Mounted /\ b[2] \in DOMAIN routers[b[1]].routes
          /\ PatternAt(b) = Full(b[1], b[2]) /\ HasParam(PatternAt(b))
      BY PatternsAreFull
    <3>2. PatternAt(b) # <<>>
      BY <3>1, RootPath
    <3>3. Written[b[1]][b[2]] = PatternAt(b) /\ b[1] \in DOMAIN Written /\ b[2] \in DOMAIN Written[b[1]]
      BY <3>1, <3>2, WrittenIsFull DEF RouteInv
    <3>4. PatternAt(b) \in Range(Written[b[1]])
      BY <3>3 DEF Range
    <3> QED
      BY <3>1, <3>3, <3>4 DEF Patterns
  <2>6. request.pathMatch \in Patterns /\ full \in Patterns
    BY <1>6, <2>1, <2>3, <2>4, <2>5 DEF Serves
  <2>7. request.pathMatch = full
    <3>1. IsFiniteSet(Patterns) /\ Cardinality(Patterns) \in Nat
      BY PatternsFinite, FS_CardinalityType
    <3>2. Cardinality(Patterns) # 0
      BY <2>6, <3>1, FS_EmptySet
    <3>3. Cardinality(Patterns) = 1
      BY <3>1, <3>2
    <3>4. \E x : Patterns = {x}
      BY <3>1, <3>3, FS_Singleton
    <3> QED
      BY <2>6, <3>4
  <2> QED
    BY <2>2, <2>7 DEF Takes, Full
<1> QED
  BY <1>5, <1>6

\* Whoever has a route that serves the request in its own words is reached.
LEMMA MatchingReached ==
    ASSUME RouteInv, phase # "setup", NEW r \in Mounted, NEW i \in DOMAIN routers[r].routes,
           Serves(Written[r][i], request.path),
           HasParam(Written[r][i]) => Spelled(Written[r][i], request.path),
           NEW a \in Mounted, r \in Below(routers, a)
    PROVE  RouterMatchesRequest(a)
<1>1. PICK rest \in Path : routers[r].basePath = routers[a].basePath \o rest
  BY BaseBegins DEF RouteInv
<1>2. /\ routers[a].basePath \in Path /\ routers[r].basePath \in Path
      /\ routers[r].routes[i].path \in Path /\ Full(r, i) \in Path
  BY MountedTypes, RouterTypes DEF RouteInv
<1>3. request.path \in RequestPaths
  BY DEF RouteInv, RequestOK
<1>4. request.path \in Seq(Words)
  BY <1>3, RouteAssumption
<1>5. Written[r][i] = IF Full(r, i) = <<>> THEN Root ELSE Full(r, i)
  BY WrittenIsFull DEF RouteInv
<1>6. CASE Full(r, i) = <<>>
  <2>1. Len(routers[a].basePath) = 0
    <3>1. Len(Full(r, i)) = 0
      BY <1>6
    <3>2. /\ Len(Full(r, i)) = Len(routers[r].basePath) + Len(routers[r].routes[i].path)
          /\ Len(routers[r].basePath) = Len(routers[a].basePath) + Len(rest)
      BY <1>1, <1>2, Concatenated DEF Full
    <3>3. /\ Len(routers[a].basePath) \in Nat /\ Len(rest) \in Nat
          /\ Len(routers[r].routes[i].path) \in Nat /\ Len(routers[r].basePath) \in Nat
      <4>1. \A p \in Path : Len(p) \in Nat
        BY DEF Path
      <4> QED
        BY <1>1, <1>2, <4>1
    <3>4. \A k, l, m, n \in Nat : 0 = m + n /\ m = k + l => k = 0
      OBVIOUS
    <3> QED
      BY <3>1, <3>2, <3>3, <3>4, Zenon
  <2>2. DOMAIN routers[a].basePath = {}
    BY <1>2, <2>1 DEF Path
  <2>3. ~HasParam(routers[a].basePath) /\ IsStart(routers[a].basePath, request.path)
    BY <1>4, <2>1, <2>2 DEF HasParam, IsStart
  <2> QED
    BY <2>3 DEF RouterMatchesRequest
<1>7. CASE Full(r, i) # <<>>
  <2> DEFINE after == rest \o routers[r].routes[i].path
  <2>1. after \in Path
    BY <1>2, Concatenated
  <2>2. Full(r, i) = routers[a].basePath \o after
    <3>1. (routers[a].basePath \o rest) \o routers[r].routes[i].path = routers[a].basePath \o after
      <4> DEFINE p == routers[a].basePath
                 s == routers[r].routes[i].path
      <4>1. p \in Path /\ s \in Path
        BY <1>2
      <4> HIDE DEF p, s
      <4>2. (p \o rest) \o s = p \o (rest \o s)
        BY <4>1, Regrouped
      <4> QED
        BY <4>2 DEF p, s
    <3> QED
      BY <1>1, <3>1 DEF Full
  <2> HIDE DEF after
  <2>3. /\ Serves(routers[a].basePath \o after, request.path)
        /\ HasParam(routers[a].basePath \o after)
             => Spelled(routers[a].basePath \o after, request.path)
    BY <1>5, <1>7, <2>2
  <2> QED
    BY <1>2, <1>4, <2>1, <2>3, BeginningMatches
<1> QED
  BY <1>6, <1>7

\* matchRouteHandler gives the first route taken.
LEMMA FirstTaken ==
    ASSUME RouteInv, NEW r \in Mounted
    PROVE  LET fitting == {i \in DOMAIN routers[r].routes : Takes(r, routers[r].routes[i])}
           IN  IF fitting = {} THEN MatchRouteHandler(r) = 0
               ELSE MatchRouteHandler(r) = Min(fitting) /\ Min(fitting) \in fitting
<1> DEFINE fitting == {i \in DOMAIN routers[r].routes : Takes(r, routers[r].routes[i])}
<1>1. fitting \subseteq Nat
  BY MountedTypes, RouterTypes DEF RouteInv
<1>2. fitting # {} => Min(fitting) \in fitting
  <2> HIDE DEF fitting
  <2> QED
    BY <1>1, LeastOfNaturals
<1> QED
  BY <1>2 DEF MatchRouteHandler

\* The invariant says that routes are found as they were written.
LEMMA RoutedFollows == RouteInv => RoutedAsWritten
<1> SUFFICES ASSUME RouteInv, phase = "served" PROVE RoutedAsWritten
  BY DEF RoutedAsWritten
<1>1. DOMAIN Written = Mounted /\ \A r \in Mounted : DOMAIN Written[r] = DOMAIN routers[r].routes
  BY WrittenIsFull DEF RouteInv
<1>2. ASSUME NEW r \in Mounted
      PROVE  LET all == {i \in DOMAIN Written[r] :
                            /\ routers[r].routes[i].method = request.method
                            /\ Serves(Written[r][i], request.path)}
                 missable == {i \in all : HasParam(Written[r][i])
                                 /\ (<<r, i>> \in late \/ ~Spelled(Written[r][i], request.path))}
             IN /\ chosen[r] \in all \cup {0}
                /\ Cardinality(Patterns) <= 1 /\ missable = {}
                   => chosen[r] = IF all = {} THEN 0 ELSE Min(all)
  <2> DEFINE all == {i \in DOMAIN Written[r] :
                        /\ routers[r].routes[i].method = request.method
                        /\ Serves(Written[r][i], request.path)}
             missable == {i \in all : HasParam(Written[r][i])
                             /\ (<<r, i>> \in late \/ ~Spelled(Written[r][i], request.path))}
             fitting == {i \in DOMAIN routers[r].routes : Takes(r, routers[r].routes[i])}
             reached == \A a \in Mounted : r \in Below(routers, a) => RouterMatchesRequest(a)
  <2>1. chosen[r] = IF reached THEN MatchRouteHandler(r) ELSE 0
    BY MountedTypes DEF RouteInv, ChosenOK
  <2>2. fitting \subseteq all
    BY <1>1, TakenMatches
  <2>3. IF fitting = {} THEN MatchRouteHandler(r) = 0
        ELSE MatchRouteHandler(r) = Min(fitting) /\ Min(fitting) \in fitting
    BY FirstTaken
  <2>4. ASSUME Cardinality(Patterns) <= 1, missable = {} PROVE all \subseteq fitting
    BY <1>1, <2>4, MatchingTaken
  <2>5. ASSUME all # {}, missable = {} PROVE reached
    BY <1>1, <2>5, MatchingReached
  <2> HIDE DEF all, missable, fitting, reached
  <2>6. chosen[r] \in all \cup {0}
    BY <2>1, <2>2, <2>3
  <2>7. ASSUME Cardinality(Patterns) <= 1, missable = {}
        PROVE  chosen[r] = IF all = {} THEN 0 ELSE Min(all)
    <3>1. all = fitting
      BY <2>2, <2>4, <2>7
    <3>2. CASE all = {}
      BY <2>1, <2>3, <3>1, <3>2
    <3>3. CASE all # {}
      BY <2>1, <2>3, <2>5, <2>7, <3>1, <3>3
    <3> QED
      BY <3>2, <3>3
  <2> QED
    BY <2>6, <2>7 DEF all, missable
<1> QED
  BY <1>1, <1>2 DEF RoutedAsWritten, Patterns

\* The invariant says that parameters are those of the route taken.
LEMMA ParamsFollow == RouteInv => ParamsAreTheRoutes
<1> SUFFICES ASSUME RouteInv, phase = "served", NEW r \in DOMAIN Written, chosen[r] # 0,
                    NEW j \in DOMAIN Written[r][chosen[r]], Written[r][chosen[r]][j] \in Params,
                    \A i \in 1..(j-1) : ~BeginsWith(Written[r][chosen[r]][j], Written[r][chosen[r]][i])
             PROVE  ParamValue(Written[r][chosen[r]][j]) = request.path[j]
  BY DEF ParamsAreTheRoutes
<1>1. r \in Mounted
  BY WrittenIsFull DEF RouteInv
<1>2. chosen[r] \in DOMAIN routers[r].routes /\ Takes(r, routers[r].routes[chosen[r]])
  BY <1>1, MountedTypes, FirstTaken DEF RouteInv, ChosenOK
<1> DEFINE c == chosen[r]
           full == Full(r, c)
           key == Written[r][c][j]
           at == Places(full)
           named == {k \in DOMAIN request.keys : BeginsWith(key, request.keys[k])}
<1>3. full \in Path /\ Written[r][c] = IF full = <<>> THEN Root ELSE full
  BY <1>1, <1>2, MountedTypes, WrittenIsFull DEF RouteInv
<1>4. Written[r][c] = full /\ HasParam(full)
  <2>1. HasParam(Written[r][c])
    BY DEF HasParam
  <2> QED
    BY <1>3, <2>1, RootPath
<1>5. request.keys = Keys(full) /\ request.values = Values(full, request.path)
  BY <1>1, <1>2, <1>4, TakenMatches
<1> HIDE DEF c
<1>6. PICK n \in Nat : DOMAIN at = 1..n
  BY <1>3, PlacesInOrder
<1>7. \A k \in 1..n : at[k] \in DOMAIN full /\ at[k] \in Nat
  <2>1. DOMAIN full \subseteq Nat
    BY <1>3 DEF Path
  <2> QED
    BY <1>3, <1>6, <2>1, PlacesInOrder
<1>8. PICK m \in 1..n : at[m] = j
  BY <1>3, <1>4, <1>6, PlacesInOrder DEF c
<1>9. /\ DOMAIN request.keys = 1..n /\ DOMAIN request.values = 1..n
      /\ \A k \in 1..n : request.keys[k] = full[at[k]] /\ request.values[k] = request.path[at[k]]
  BY <1>5, <1>6 DEF Keys, Values
<1>10. named \subseteq Nat /\ m \in named
  <2>1. request.keys[m] = key
    BY <1>4, <1>8, <1>9
  <2> QED
    BY <1>9, <2>1 DEF BeginsWith
<1>11. Min(named) \in named /\ Min(named) <= m
  <2> HIDE DEF named
  <2> QED
    BY <1>10, LeastOfNaturals
<1>12. Min(named) = m
  <2> SUFFICES ASSUME Min(named) # m PROVE FALSE
    OBVIOUS
  <2> DEFINE k == Min(named)
  <2>1. k \in 1..n /\ k < m /\ BeginsWith(key, full[at[k]])
    <3>1. k \in named /\ k <= m
      BY <1>11
    <3> HIDE DEF k
    <3>2. k \in 1..n /\ BeginsWith(key, request.keys[k])
      BY <1>9, <3>1
    <3>3. k < m
      <4>1. k # m
        BY DEF k
      <4> QED
        BY <3>1, <3>2, <4>1
    <3>4. BeginsWith(key, full[at[k]])
      BY <1>9, <3>2
    <3> QED
      BY <3>2, <3>3, <3>4
  <2> HIDE DEF k
  <2>2. at[k] < at[m]
    BY <1>3, <1>6, <1>8, <2>1, PlacesInOrder
  <2>3. at[k] \in 1..(j-1)
    <3>1. at[k] \in DOMAIN full /\ at[k] \in Nat /\ j \in Nat /\ at[k] # 0
      BY <1>3, <1>7, <1>8, <2>1 DEF Path
    <3> QED
      BY <1>8, <2>2, <3>1
  <2> QED
    BY <1>4, <2>1, <2>3 DEF c
<1>13. ParamValue(key) = request.values[Min(named)]
  BY <1>10 DEF ParamValue
<1> QED
  BY <1>8, <1>9, <1>12, <1>13 DEF c

\* Below a router is the same for the same children.
LEMMA SameBelow ==
    ASSUME NEW rs, NEW ts, \A p \in Routers : ts[p].children = rs[p].children
    PROVE  /\ \A x : Below(ts, x) = Below(rs, x)
           /\ IsForest(rs) => IsForest(ts)
<1>1. \A x : Below(ts, x) = Below(rs, x)
  BY DEF Below
<1>2. ASSUME IsForest(rs) PROVE IsForest(ts)
  BY <1>1, <1>2 DEF IsForest
<1> QED
  BY <1>1, <1>2

\* Mounting r adds it and all below it to what is below the routers above it.
LEMMA EdgeAdded ==
    ASSUME NEW rs, IsForest(rs), NEW ts, NEW parent \in Routers, NEW r \in SubRouters,
           \A p \in Routers : r \notin Range(rs[p].children), parent \notin Below(rs, r),
           \A p \in Routers : ts[p].children = IF p = parent THEN Append(rs[p].children, r)
                                               ELSE rs[p].children
    PROVE  /\ IsForest(ts)
           /\ \A x \in Routers : Below(ts, x) = IF parent \in Below(rs, x)
                                                  THEN Below(rs, x) \cup Below(rs, r) ELSE Below(rs, x)
<1>0. r \in Routers
  BY DEF Routers
<1>1. \A p \in Routers :
         /\ ts[p].children \in Seq(SubRouters)
         /\ rs[p].children \in Seq(SubRouters) /\ Len(rs[p].children) \in Nat
         /\ DOMAIN rs[p].children = 1..Len(rs[p].children)
         /\ p # parent => ts[p].children = rs[p].children
  <2> SUFFICES ASSUME NEW p \in Routers
               PROVE  /\ ts[p].children \in Seq(SubRouters)
                      /\ rs[p].children \in Seq(SubRouters) /\ Len(rs[p].children) \in Nat
                      /\ DOMAIN rs[p].children = 1..Len(rs[p].children)
                      /\ p # parent => ts[p].children = rs[p].children
    OBVIOUS
  <2>1. rs[p].children \in Seq(SubRouters)
    BY DEF IsForest
  <2>2. Append(rs[p].children, r) \in Seq(SubRouters)
    BY <2>1
  <2>3. ts[p].children = IF p = parent THEN Append(rs[p].children, r) ELSE rs[p].children
    OBVIOUS
  <2> QED
    BY <2>1, <2>2, <2>3
<1>2. /\ DOMAIN ts[parent].children = 1..Len(rs[parent].children) + 1
      /\ \A i \in 1..Len(rs[parent].children) : ts[parent].children[i] = rs[parent].children[i]
      /\ ts[parent].children[Len(rs[parent].children) + 1] = r
  <2>1. ts[parent].children = Append(rs[parent].children, r)
    OBVIOUS
  <2> QED
    BY <1>1, <2>1
<1>3. \A p \in Routers : Range(ts[p].children) = IF p = parent THEN Range(rs[p].children) \cup {r}
                                                 ELSE Range(rs[p].children)
  <2>1. \A i \in 1..Len(rs[parent].children) + 1 : i \in 1..Len(rs[parent].children) \/ i = Len(rs[parent].children) + 1
    BY <1>1
  <2>2. 1..Len(rs[parent].children) \subseteq 1..Len(rs[parent].children) + 1
        /\ Len(rs[parent].children) + 1 \in 1..Len(rs[parent].children) + 1
    BY <1>1
  <2>3. Range(ts[parent].children) \subseteq Range(rs[parent].children) \cup {r}
    BY <1>1, <1>2, <2>1 DEF Range
  <2>4. Range(rs[parent].children) \cup {r} \subseteq Range(ts[parent].children)
    <3>1. r \in Range(ts[parent].children)
      BY <1>2, <2>2 DEF Range
    <3>2. ASSUME NEW c \in Range(rs[parent].children) PROVE c \in Range(ts[parent].children)
      <4>1. PICK i \in 1..Len(rs[parent].children) : c = rs[parent].children[i]
        BY <1>1 DEF Range
      <4>2. i \in DOMAIN ts[parent].children /\ ts[parent].children[i] = c
        BY <1>2, <2>2, <4>1
      <4> QED
        BY <4>2 DEF Range
    <3> QED
      BY <3>1, <3>2
  <2> QED
    BY <1>1, <2>3, <2>4
<1>4. ASSUME NEW x \in Routers
      PROVE  Below(ts, x) = IF parent \in Below(rs, x) THEN Below(rs, x) \cup Below(rs, r) ELSE Below(rs, x)
  <2> DEFINE S == IF parent \in Below(rs, x) THEN Below(rs, x) \cup Below(rs, r) ELSE Below(rs, x)
  <2>1. Below(ts, x) \subseteq S
    <3>1. S \in SUBSET Routers /\ x \in S
      BY <1>0, BelowSelf
    <3>2. \A p \in S : Range(ts[p].children) \subseteq S
      <4> SUFFICES ASSUME NEW p \in S, NEW c \in Range(ts[p].children) PROVE c \in S
        OBVIOUS
      <4>1. p \in Routers
        BY <3>1
      <4>2. CASE c \in Range(rs[p].children)
        BY <1>0, <4>2, BelowChild
      <4>3. CASE p = parent /\ c = r
        <5>1. parent \in Below(rs, x)
          BY <4>3
        <5> QED
          BY <1>0, <4>3, <5>1, BelowSelf
      <4> QED
        BY <1>3, <4>1, <4>2, <4>3
    <3> HIDE DEF S
    <3> QED
      BY <3>1, <3>2 DEF Below
  <2>2. \A T \in SUBSET Routers : (\A p \in T : Range(ts[p].children) \subseteq T)
                                  => (\A p \in T : Range(rs[p].children) \subseteq T)
    BY <1>3
  <2>3. \A y \in Routers : Below(rs, y) \subseteq Below(ts, y)
    BY <2>2 DEF Below
  <2>4. ASSUME parent \in Below(rs, x) PROVE Below(rs, r) \subseteq Below(ts, x)
    <3> SUFFICES ASSUME NEW y \in Below(rs, r), NEW T \in SUBSET Routers, x \in T,
                        \A p \in T : Range(ts[p].children) \subseteq T
                 PROVE  y \in T
      BY DEF Below
    <3>1. parent \in T
      BY <2>2, <2>4 DEF Below
    <3>2. r \in T
      BY <1>3, <3>1
    <3> QED
      BY <2>2, <3>2 DEF Below
  <2> QED
    BY <2>1, <2>3, <2>4
<1>5. \A p, q \in Routers : \A i \in DOMAIN ts[p].children, j \in DOMAIN ts[q].children :
         ts[p].children[i] = ts[q].children[j] => p = q /\ i = j
  <2> SUFFICES ASSUME NEW p \in Routers, NEW q \in Routers, NEW i \in DOMAIN ts[p].children,
                      NEW j \in DOMAIN ts[q].children, ts[p].children[i] = ts[q].children[j]
               PROVE  p = q /\ i = j
    OBVIOUS
  <2> DEFINE n == Len(rs[parent].children)
             Old(u, k) == k \in DOMAIN rs[u].children /\ ts[u].children[k] = rs[u].children[k]
  <2>1. ASSUME NEW u \in Routers, NEW k \in DOMAIN ts[u].children
        PROVE  Old(u, k) \/ (u = parent /\ k = n + 1 /\ ts[u].children[k] = r)
    <3>1. CASE u # parent
      BY <1>1, <3>1
    <3>2. CASE u = parent
      <4>1. k \in 1..n \/ k = n + 1
        BY <1>1, <1>2, <3>2
      <4> QED
        BY <1>1, <1>2, <3>2, <4>1
    <3> QED
      BY <3>1, <3>2
  <2>2. \A u \in Routers : \A k \in DOMAIN rs[u].children : rs[u].children[k] # r
    BY DEF Range
  <2>3. CASE Old(p, i) /\ Old(q, j)
    <3>1. rs[p].children[i] = rs[q].children[j] /\ i \in DOMAIN rs[p].children /\ j \in DOMAIN rs[q].children
      BY <2>3
    <3> QED
      BY <3>1 DEF IsForest
  <2>4. CASE ~Old(p, i)
    BY <2>1, <2>2, <2>4
  <2>5. CASE ~Old(q, j)
    BY <2>1, <2>2, <2>5
  <2> QED
    BY <2>3, <2>4, <2>5
<1>6. \A p \in Routers : \A x \in Range(ts[p].children) : p \notin Below(ts, x)
  <2> SUFFICES ASSUME NEW p \in Routers, NEW x \in Range(ts[p].children), p \in Below(ts, x) PROVE FALSE
    OBVIOUS
  <2>1. x \in Routers
    BY <1>0, <1>3, ChildrenListed
  <2>2. CASE x \in Range(rs[p].children)
    <3>1. p \notin Below(rs, x)
      BY <2>2 DEF IsForest
    <3>2. parent \in Below(rs, x) /\ p \in Below(rs, r)
      BY <1>4, <2>1, <3>1
    <3>3. x \in Below(rs, r)
      BY <1>0, <2>2, <3>2, BelowChild
    <3> QED
      BY <1>0, <3>2, <3>3, BelowBelow
  <2>3. CASE p = parent /\ x = r
    BY <1>4, <2>1, <2>3
  <2>4. x \in Range(rs[p].children) \/ (p = parent /\ x = r)
    <3>1. Range(ts[p].children) = IF p = parent THEN Range(rs[p].children) \cup {r}
                                  ELSE Range(rs[p].children)
      BY <1>3
    <3> QED
      BY <3>1
  <2> QED
    BY <2>2, <2>3, <2>4
<1> QED
  BY <1>1, <1>4, <1>5, <1>6 DEF IsForest

\* No more routes are counted than there may be.
LEMMA RoutesCounted ==
    ASSUME TypeOK, NEW r \in Routers
    PROVE  RouteCount \in Nat /\ Len(routers[r].routes) <= RouteCount
<1> DEFINE T == UNION {{x} \X DOMAIN routers[x].routes : x \in Routers}
           mine == {r} \X DOMAIN routers[r].routes
           n == Len(routers[r].routes)
<1>1. IsFiniteSet(T)
  <2>1. \A x \in Routers : \E k \in Nat : DOMAIN routers[x].routes = 1..k
    BY RouterTypes
  <2> QED
    BY <2>1, RoutesFinite
<1>2. mine \subseteq T
  OBVIOUS
<1>3. Cardinality(mine) = n
  <2>1. n \in Nat /\ DOMAIN routers[r].routes = 1..n
    BY RouterTypes
  <2>2. IsFiniteSet(1..n) /\ Cardinality(1..n) = n
    <3> HIDE DEF n
    <3> QED
      BY <2>1, FS_Interval
  <2> DEFINE f == [i \in 1..n |-> <<r, i>>]
  <2>3. f \in [1..n -> mine] /\ DOMAIN f = 1..n
    BY <2>1
  <2>4. \A t \in mine : \E i \in 1..n : f[i] = t
    <3> SUFFICES ASSUME NEW t \in mine PROVE \E i \in 1..n : f[i] = t
      OBVIOUS
    <3>1. PICK i \in 1..n : t = <<r, i>>
      BY <2>1
    <3> QED
      BY <3>1
  <2>5. \A i, k \in 1..n : f[i] = f[k] => i = k
    OBVIOUS
  <2> HIDE DEF f, n, mine
  <2>6. f \in Surjection(1..n, mine) /\ f \in Injection(1..n, mine)
    BY <2>3, <2>4, <2>5 DEF Surjection, Injection, IsInjective
  <2> QED
    BY <2>2, <2>6, FS_Surjection
<1> HIDE DEF T, mine
<1>4. Cardinality(mine) <= Cardinality(T) /\ Cardinality(T) \in Nat
  BY <1>1, <1>2, FS_Subset, FS_CardinalityType
<1> QED
  BY <1>3, <1>4 DEF RouteCount, T

\* When nothing is mounted, only the base router is.
LEMMA RouteInitInv == Init => RouteInv
<1> SUFFICES ASSUME Init PROVE RouteInv
  OBVIOUS
<1>1. \A r \in Routers : routers[r].children = <<>> /\ routers[r].routes = <<>>
  BY DEF Init
<1>2. \A r \in Routers : Range(routers[r].children) = {} /\ DOMAIN routers[r].routes = {}
  BY <1>1 DEF Range
<1>0. 0 \in 0..MaxRoutes /\ 0 <= MaxRoutes
  <2>1. MaxRoutes \in Nat
    BY RouteAssumption
  <2> QED
    BY <2>1
<1>3. TypeOK
  <2>1. <<>> \in Path /\ <<>> \in Seq(Route) /\ <<>> \in Seq(SubRouters)
    BY DEF Path
  <2>2. routers \in [Routers -> Router]
    BY <2>1 DEF Init, Router
  <2>3. chosen \in [Routers -> 0..MaxRoutes]
    BY <1>0 DEF Init
  <2> QED
    BY <2>2, <2>3 DEF Init, TypeOK
<1>4. IsForest(routers)
  <2>1. \A r \in Routers : routers[r].children \in Seq(SubRouters) /\ DOMAIN routers[r].children = {}
    <3>1. <<>> \in Seq(SubRouters) /\ DOMAIN <<>> = {}
      OBVIOUS
    <3> QED
      BY <1>1, <3>1
  <2> QED
    BY <1>2, <2>1 DEF IsForest
<1>5. Mounted = {App}
  <2>1. Mounted \subseteq {App}
    BY <1>2, <1>4, RoutersFinite, BelowInduction DEF Mounted
  <2> QED
    BY <2>1, RoutersFinite, BelowSelf DEF Mounted
<1>6. BasesOK
  <2>1. <<>> # NULL
    BY RootPath, RouteAssumption DEF Path
  <2>2. \A r \in Routers : routers[r].basePath = IF r = App THEN <<>> ELSE NULL
    BY DEF Init
  <2> QED
    BY <1>2, <1>5, <2>1, <2>2, RoutersFinite DEF BasesOK
<1>7. RoutesOK
  <2>1. \A r \in Routers : Len(routers[r].routes) <= MaxRoutes
    <3>1. Len(<<>>) = 0
      OBVIOUS
    <3> QED
      BY <1>0, <1>1, <3>1
  <2> QED
    BY <1>2, <2>1 DEF Init, RoutesOK
<1> QED
  BY <1>3, <1>4, <1>6, <1>7 DEF Init, RouteInv, RequestOK, ChosenOK

\* A route that is added gets the pattern of a mounted base router, or none.
LEMMA AddRouteInv ==
    ASSUME RouteInv, NEW r \in Routers, NEW method \in Methods, NEW path \in RoutePaths,
           AddRoute(r, method, path)
    PROVE  RouteInv'
<1> DEFINE isBase == r = App
           route == [method     |-> method,
                     path       |-> IF ~isBase /\ path = Root THEN <<>> ELSE path,
                     regex      |-> HasParam(path),
                     basePath   |-> IF isBase THEN routers[r].basePath ELSE NULL,
                     paramMatch |-> IF isBase /\ HasParam(path)
                                      THEN routers[r].basePath \o path ELSE NULL]
           n == Len(routers[r].routes)
<1>1. /\ routers' = [routers EXCEPT ![r].routes = Append(@, route)]
      /\ late' = IF r \in Mounted \ {App} THEN late \cup {<<r, n + 1>>} ELSE late
      /\ phase = "setup" /\ phase' = phase /\ request' = request /\ chosen' = chosen
      /\ RouteCount < MaxRoutes
  BY DEF AddRoute
<1>2. n \in Nat /\ n + 1 \in 1..MaxRoutes
  <2>1. n \in Nat /\ RouteCount \in Nat /\ n <= RouteCount /\ MaxRoutes \in Nat
    BY RouterTypes, RoutesCounted, RouteAssumption DEF RouteInv
  <2> HIDE DEF n
  <2> QED
    BY <1>1, <2>1
<1>3. path \in Path /\ <<>> \in Path /\ routers[r].basePath \in Path \cup {NULL}
      /\ (isBase => routers[r].basePath = <<>>)
  BY RouteAssumption, RootPath, RouterTypes DEF RouteInv, BasesOK, Path
<1>4. /\ route.path \in Path /\ route.regex = HasParam(route.path)
      /\ route.regex = HasParam(path)
      /\ isBase => <<>> \o route.path = path /\ route.path = path
  <2>1. path # Root => route.path = path
    OBVIOUS
  <2>2. path = Root => HasParam(path) = HasParam(<<>>)
    BY RootPath DEF HasParam
  <2>3. <<>> \o path = path
    BY <1>3 DEF Path
  <2> QED
    BY <1>3, <2>1, <2>2, <2>3
<1>5. route \in Route
  <2>1. isBase => routers[r].basePath \o path \in Path
    BY <1>3, Concatenated
  <2>2. route.regex \in BOOLEAN
    BY DEF HasParam
  <2> QED
    BY <1>3, <1>4, <2>1, <2>2 DEF Route
<1>6. /\ isBase /\ route.regex => route.paramMatch = <<>> \o route.path
      /\ ~(isBase /\ route.regex) => route.paramMatch = NULL
  BY <1>3, <1>4
<1> HIDE DEF route
<1>7. \A x \in Routers :
         /\ routers'[x].children = routers[x].children
         /\ routers'[x].basePath = routers[x].basePath
         /\ routers'[x].mountPath = routers[x].mountPath
         /\ x # r => routers'[x] = routers[x]
         /\ routers'[r].routes = Append(routers[r].routes, route)
  <2>1. routers \in [Routers -> Router]
    BY DEF RouteInv, TypeOK
  <2> QED
    BY <1>1, <2>1
<1>8. Mounted' = Mounted /\ IsForest(routers)'
  BY <1>7, SameBelow DEF RouteInv, Mounted
<1>9. /\ routers[r].routes \in Seq(Route) /\ routers'[r].routes \in Seq(Route)
      /\ Len(routers'[r].routes) = n + 1
      /\ DOMAIN routers'[r].routes = DOMAIN routers[r].routes \cup {n + 1}
      /\ DOMAIN routers[r].routes = 1..n
      /\ \A i \in 1..n : routers'[r].routes[i] = routers[r].routes[i]
      /\ routers'[r].routes[n + 1] = route
  <2>1. routers[r].routes \in Seq(Route)
    BY RouterTypes DEF RouteInv
  <2>2. routers'[r].routes = Append(routers[r].routes, route)
    BY <1>7
  <2> QED
    BY <1>5, <2>1, <2>2
<1>10. TypeOK'
  <2>1. routers' \in [Routers -> Router]
    <3>1. \A x \in Routers : routers[x] \in Router
      BY DEF RouteInv, TypeOK
    <3>2. routers' = [routers EXCEPT ![r] = [routers[r] EXCEPT !.routes = Append(routers[r].routes, route)]]
      BY <1>1
    <3>3. [routers[r] EXCEPT !.routes = Append(routers[r].routes, route)] \in Router
      <4> DEFINE new == Append(routers[r].routes, route)
      <4>1. new \in Seq(Route)
        BY <1>5, <1>9
      <4> HIDE DEF new
      <4>2. [routers[r] EXCEPT !.routes = new] \in Router
        BY <3>1, <4>1 DEF Router
      <4> QED
        BY <4>2 DEF new
    <3> QED
      BY <3>2, <3>3 DEF RouteInv, TypeOK
  <2>2. late' \subseteq SubRouters \X (1..MaxRoutes)
    BY <1>1, <1>2 DEF RouteInv, TypeOK, Routers
  <2> QED
    BY <1>1, <2>1, <2>2 DEF RouteInv, TypeOK
<1>11. BasesOK'
  <2>1. BasesOK
    BY DEF RouteInv
  <2>2. routers'[App].basePath = <<>>
    BY <1>7, <2>1, RoutersFinite DEF BasesOK
  <2>3. \A x \in Routers : routers'[x].basePath # NULL <=> x \in Mounted'
    BY <1>7, <1>8, <2>1 DEF BasesOK
  <2>4. ASSUME NEW p \in Routers, NEW x \in Range(routers'[p].children)
        PROVE  /\ routers'[x].mountPath # NULL
               /\ p \in Mounted' =>
                    routers'[x].basePath = Joined(routers'[p].basePath, routers'[x].mountPath)
    <3>1. x \in Range(routers[p].children) /\ x \in Routers
      BY <1>7, ChildrenListed DEF RouteInv
    <3>2. /\ routers'[x].mountPath = routers[x].mountPath /\ routers'[x].basePath = routers[x].basePath
          /\ routers'[p].basePath = routers[p].basePath
      BY <1>7, <3>1
    <3> QED
      BY <1>8, <2>1, <3>1, <3>2 DEF BasesOK
  <2> QED
    BY <2>2, <2>3, <2>4 DEF BasesOK
<1>12. RoutesOK'
  <2>1. RoutesOK
    BY DEF RouteInv
  <2>2. \A x \in Routers : Len(routers'[x].routes) <= MaxRoutes
    BY <1>2, <1>7, <1>9, <2>1 DEF RoutesOK
  <2>3. \A at \in late' : at[1] \in Mounted' \ {App}
    BY <1>1, <1>8, <2>1 DEF RoutesOK
  <2>4. ASSUME NEW x \in Routers, NEW i \in DOMAIN routers'[x].routes
        PROVE  LET new == routers'[x].routes[i]
                   full == routers'[x].basePath \o new.path IN
               IF x \in Mounted' /\ <<x, i>> \notin late'
                 THEN /\ new.regex = HasParam(full)
                      /\ new.paramMatch = IF new.regex THEN full ELSE NULL
                 ELSE new.regex = HasParam(new.path) /\ new.paramMatch = NULL
    <3>1. CASE x = r /\ i = n + 1
      <4>1. CASE isBase
        <5>1. x \in Mounted'
          BY <1>8, <3>1, <4>1, RoutersFinite, BelowSelf DEF Mounted
        <5>2. <<x, i>> \notin late'
          BY <2>3, <3>1, <4>1
        <5>3. routers'[x].basePath = <<>> /\ routers'[x].routes[i] = route
          BY <1>3, <1>7, <1>9, <3>1, <4>1
        <5> QED
          BY <1>4, <1>6, <4>1, <5>1, <5>2, <5>3
      <4>2. CASE ~isBase
        <5>1. x \in Mounted' => <<x, i>> \in late'
          BY <1>1, <1>8, <3>1, <4>2
        <5> QED
          BY <1>4, <1>6, <1>9, <3>1, <4>2, <5>1
      <4> QED
        BY <4>1, <4>2
    <3>2. CASE ~(x = r /\ i = n + 1)
      <4>1. i \in DOMAIN routers[x].routes /\ routers'[x].routes[i] = routers[x].routes[i]
        BY <1>7, <1>9, <3>2
      <4>2. <<x, i>> \in late' <=> <<x, i>> \in late
        BY <1>1, <3>2
      <4>3. routers'[x].basePath = routers[x].basePath
        BY <1>7
      <4> QED
        BY <1>8, <2>1, <4>1, <4>2, <4>3 DEF RoutesOK, Full
    <3> QED
      BY <3>1, <3>2
  <2> QED
    BY <2>2, <2>3, <2>4 DEF RoutesOK, Full
<1> QED
  BY <1>1, <1>8, <1>10, <1>11, <1>12 DEF RouteInv, RequestOK, ChosenOK

\* Mounting a router gives it, and all mounted on it, base paths and patterns,
\* if its parent has them.
LEMMA UseRouterInv ==
    ASSUME RouteInv, NEW parent \in Routers, NEW r \in SubRouters, NEW mountPath \in MountPaths,
           UseRouter(parent, r, mountPath)
    PROVE  RouteInv'
<1> DEFINE ts == [routers EXCEPT ![r].mountPath = mountPath, ![parent].children = Append(@, r)]
           B == Below(routers, r)
<1>1. /\ phase = "setup" /\ phase' = phase /\ request' = request /\ chosen' = chosen /\ late' = late
      /\ \A p \in Routers : r \notin Range(routers[p].children)
      /\ parent \notin B
      /\ routers' = MountTo(ts, r, parent)
  BY DEF UseRouter
<1>2. TypeOK /\ IsForest(routers) /\ BasesOK /\ RoutesOK
  BY DEF RouteInv
<1>3. r \in Routers /\ r # App /\ App \in Routers /\ r \in B /\ r # parent /\ B \subseteq Routers
  <2>1. r \in Routers /\ r # App
    BY RouteAssumption DEF Routers
  <2> QED
    BY <1>1, <2>1, RoutersFinite, BelowSelf
<1>4. mountPath \in Path /\ mountPath # NULL
  BY RouteAssumption DEF Path
<1>5. /\ DOMAIN ts = Routers
      /\ \A x \in Routers :
         /\ ts[x].children = IF x = parent THEN Append(routers[x].children, r) ELSE routers[x].children
         /\ ts[x].mountPath = IF x = r THEN mountPath ELSE routers[x].mountPath
         /\ ts[x].basePath = routers[x].basePath /\ ts[x].routes = routers[x].routes
         /\ ts[x] \in Router
  <2> SUFFICES ASSUME NEW x \in Routers
               PROVE  /\ ts[x].children = IF x = parent THEN Append(routers[x].children, r) ELSE routers[x].children
                      /\ ts[x].mountPath = IF x = r THEN mountPath ELSE routers[x].mountPath
                      /\ ts[x].basePath = routers[x].basePath /\ ts[x].routes = routers[x].routes
                      /\ ts[x] \in Router
    BY <1>2 DEF TypeOK
  <2> DEFINE more == Append(routers[parent].children, r)
  <2>1. routers \in [Routers -> Router] /\ routers[parent] \in Router /\ routers[r] \in Router /\ routers[x] \in Router
    BY <1>2, <1>3 DEF TypeOK
  <2>2. more \in Seq(SubRouters)
    BY <2>1 DEF Router
  <2>3. ts = [routers EXCEPT ![r] = [routers[r] EXCEPT !.mountPath = mountPath],
                             ![parent] = [routers[parent] EXCEPT !.children = more]]
    BY <1>3, <2>1
  <2> HIDE DEF more, ts
  <2>4. ts[x] = IF x = parent THEN [routers[parent] EXCEPT !.children = more]
                ELSE IF x = r THEN [routers[r] EXCEPT !.mountPath = mountPath] ELSE routers[x]
    BY <1>3, <2>1, <2>3
  <2>5. CASE x = parent
    BY <1>3, <2>1, <2>2, <2>4, <2>5 DEF Router, more
  <2>6. CASE x = r
    BY <1>3, <1>4, <2>1, <2>4, <2>6 DEF Router
  <2>7. CASE x # parent /\ x # r
    BY <2>1, <2>4, <2>7
  <2> QED
    BY <2>5, <2>6, <2>7
<1> HIDE DEF ts
<1>6. /\ IsForest(ts)
      /\ \A x \in Routers : Below(ts, x) = IF parent \in Below(routers, x)
                                             THEN Below(routers, x) \cup B ELSE Below(routers, x)
  BY <1>1, <1>2, <1>5, EdgeAdded
<1>7. Below(ts, r) = B
  BY <1>1, <1>3, <1>6
<1>8. Below(ts, App) = IF parent \in Mounted THEN Mounted \cup B ELSE Mounted
  BY <1>3, <1>6 DEF Mounted
<1>9. B \cap Mounted = {}
  <2> SUFFICES ASSUME NEW y \in B, y \in Mounted PROVE FALSE
    OBVIOUS
  <2>1. App \in B \/ r \in Mounted
    BY <1>2, <1>3, AboveInLine DEF Mounted
  <2>2. r \notin Mounted
    BY <1>1, <1>2, <1>3, MountedParent, RoutersFinite, BelowSelf DEF Mounted
  <2>3. \E p \in B : App \in Range(routers[p].children)
    BY <1>2, <1>3, <2>1, <2>2, BelowHasParent
  <2> QED
    BY <1>2, <1>3, <2>3, ChildrenListed, RoutersFinite
<1>10. \A p \in Routers : \A x \in Range(ts[p].children) : ts[x].mountPath \in Path /\ x \in Routers
  <2> SUFFICES ASSUME NEW p \in Routers, NEW x \in Range(ts[p].children)
               PROVE  ts[x].mountPath \in Path /\ x \in Routers
    OBVIOUS
  <2>1. x \in Routers
    BY <1>6, ChildrenListed
  <2>2. x = r \/ x \in Range(routers[p].children)
    <3>1. CASE p = parent
      <4>1. routers[p].children \in Seq(SubRouters) /\ ts[p].children = Append(routers[p].children, r)
        BY <1>5, <3>1, <1>2, RouterTypes
      <4> QED
        BY <4>1 DEF Range
    <3>2. CASE p # parent
      BY <1>5, <3>2
    <3> QED
      BY <3>1, <3>2
  <2>3. x # r => routers[x].mountPath \in Path \cup {NULL} /\ routers[x].mountPath # NULL
    BY <1>2, <2>1, <2>2, RouterTypes DEF BasesOK
  <2> QED
    BY <1>4, <1>5, <2>1, <2>3
<1>11. \A x \in B : ts[x].mountPath \in Path
  <2> SUFFICES ASSUME NEW x \in B PROVE ts[x].mountPath \in Path
    OBVIOUS
  <2>1. CASE x = r
    BY <1>3, <1>4, <1>5, <2>1
  <2>2. CASE x # r
    <3>1. PICK p \in B : x \in Range(ts[p].children)
      BY <1>3, <1>6, <1>7, <2>2, BelowHasParent
    <3> QED
      BY <1>3, <1>10, <3>1
  <2> QED
    BY <2>1, <2>2
<1>12. ASSUME NEW x \in Routers
       PROVE  /\ DOMAIN ts[x].routes = DOMAIN routers[x].routes
              /\ Len(ts[x].routes) <= MaxRoutes
              /\ \A i \in DOMAIN routers[x].routes : ts[x].routes[i].path = routers[x].routes[i].path
  BY <1>2, <1>5 DEF RoutesOK
<1>13. \A p \in Routers : \A x \in Range(ts[p].children) :
          x # r => x \in Range(routers[p].children)
  <2> SUFFICES ASSUME NEW p \in Routers, NEW x \in Range(ts[p].children), x # r
               PROVE  x \in Range(routers[p].children)
    OBVIOUS
  <2>1. CASE p = parent
    <3>1. routers[p].children \in Seq(SubRouters) /\ ts[p].children = Append(routers[p].children, r)
      BY <1>5, <2>1, <1>2, RouterTypes
    <3> QED
      BY <3>1 DEF Range
  <2>2. CASE p # parent
    BY <1>5, <2>2
  <2> QED
    BY <2>1, <2>2
<1>14. \A p \in Routers : r \in Range(ts[p].children) => p = parent
  <2> SUFFICES ASSUME NEW p \in Routers, r \in Range(ts[p].children), p # parent PROVE FALSE
    OBVIOUS
  <2> QED
    BY <1>1, <1>5
<1>15. CASE parent \notin Mounted
  <2>1. routers' = ts
    <3>1. ts[parent].basePath = NULL
      BY <1>2, <1>5, <1>15 DEF BasesOK
    <3> QED
      BY <1>1, <3>1 DEF MountTo
  <2>2. Mounted' = Mounted
    BY <1>8, <1>15, <2>1 DEF Mounted
  <2>3. TypeOK'
    <3>1. routers' \in [Routers -> Router]
      BY <1>1, <1>5, <2>1 DEF ts
    <3> QED
      BY <1>1, <1>2, <3>1 DEF TypeOK
  <2>4. BasesOK'
    <3>1. routers'[App].basePath = <<>>
      BY <1>2, <1>3, <1>5, <2>1 DEF BasesOK
    <3>2. \A x \in Routers : routers'[x].basePath # NULL <=> x \in Mounted'
      BY <1>2, <1>5, <2>1, <2>2 DEF BasesOK
    <3>3. ASSUME NEW p \in Routers, NEW x \in Range(routers'[p].children)
          PROVE  /\ routers'[x].mountPath # NULL
                 /\ p \in Mounted' =>
                      routers'[x].basePath = Joined(routers'[p].basePath, routers'[x].mountPath)
      <4>1. routers'[x].mountPath # NULL /\ x \in Routers
        BY <1>10, <2>1, RouteAssumption DEF Path
      <4>2. ASSUME p \in Mounted PROVE x \in Range(routers[p].children) /\ x # r
        BY <1>1, <1>5, <1>15, <2>1, <4>2
      <4> QED
        BY <1>2, <1>5, <2>1, <2>2, <4>1, <4>2 DEF BasesOK
    <3> QED
      BY <3>1, <3>2, <3>3 DEF BasesOK
  <2>5. RoutesOK'
    <3>1. \A x \in Routers : Len(routers'[x].routes) <= MaxRoutes
      BY <1>12, <2>1
    <3>2. \A x \in Routers : routers'[x].routes = routers[x].routes /\ routers'[x].basePath = routers[x].basePath
      BY <1>5, <2>1
    <3> QED
      BY <1>1, <1>2, <2>2, <3>1, <3>2 DEF RoutesOK, Full
  <2> QED
    BY <1>1, <1>6, <2>1, <2>3, <2>4, <2>5 DEF RouteInv, RequestOK, ChosenOK
<1>16. CASE parent \in Mounted
  <2> DEFINE above == ts[parent].basePath
             step(f, x) == Joined(IF x = r THEN above ELSE f[ParentOf(ts, x)], ts[x].mountPath)
             base == CHOOSE f : f = [x \in Below(ts, r) |-> step(f, x)]
  <2>1. above \in Path /\ above # NULL /\ above = routers[parent].basePath
    <3>1. above = routers[parent].basePath
      BY <1>5
    <3>2. routers[parent].basePath \in Path
      BY <1>2, <1>16, MountedTypes
    <3> QED
      BY <3>1, <3>2, RouteAssumption DEF Path
  <2>2. routers' = [x \in Routers |-> IF x \in Below(ts, r) THEN Rebase(ts[x], base[x]) ELSE ts[x]]
    BY <1>1, <2>1 DEF MountTo
  <2>3. PICK f \in [B -> Path] : \A x \in B : f[x] = step(f, x)
    <3>1. \E f \in [Below(ts, r) -> Path] : \A x \in Below(ts, r) : f[x] = step(f, x)
      <4>1. above \in Path /\ \A x \in Below(ts, r) : ts[x].mountPath \in Path
        BY <1>7, <1>11, <2>1
      <4> HIDE DEF above
      <4>2. \E f \in [Below(ts, r) -> Path] : \A x \in Below(ts, r) :
               f[x] = Joined(IF x = r THEN above ELSE f[ParentOf(ts, x)], ts[x].mountPath)
        <5>1. r \in Routers /\ IsForest(ts)
          BY <1>3, <1>6
        <5> QED
          BY <4>1, <5>1, BasesExist
      <4> QED
        BY <4>2
    <3> QED
      BY <1>7, <3>1
  <2>4. base = [x \in B |-> step(base, x)]
    <3>1. f = [x \in B |-> step(f, x)]
      BY <2>3
    <3> HIDE DEF step
    <3> QED
      BY <1>7, <3>1
  <2>5. \A x \in B : base[x] = step(base, x)
    <3> HIDE DEF base
    <3> QED
      BY <2>4
  <2> HIDE DEF base
  <2>6. \A x \in B : base[x] \in Path
    <3>1. \A x \in B : base[x] = f[x]
      <4>1. /\ \A x \in Below(ts, r) :
                  base[x] = Joined(IF x = r THEN above ELSE base[ParentOf(ts, x)], ts[x].mountPath)
            /\ \A x \in Below(ts, r) :
                  f[x] = Joined(IF x = r THEN above ELSE f[ParentOf(ts, x)], ts[x].mountPath)
        BY <1>7, <2>3, <2>5
      <4> HIDE DEF above, step
      <4>2. \A x \in Below(ts, r) : base[x] = f[x]
        BY <1>3, <1>6, <4>1, BasesUnique
      <4> QED
        BY <1>7, <4>2
    <3> QED
      BY <2>3, <3>1
  <2>7. ASSUME NEW x \in B
        PROVE  /\ x \in Routers
               /\ routers'[x].basePath = base[x]
               /\ routers'[x].mountPath = ts[x].mountPath
               /\ routers'[x].children = ts[x].children
               /\ DOMAIN routers'[x].routes = DOMAIN routers[x].routes
               /\ Len(routers'[x].routes) = Len(routers[x].routes)
               /\ \A i \in DOMAIN routers[x].routes :
                    /\ routers'[x].routes[i].path = routers[x].routes[i].path
                    /\ routers'[x].routes[i].regex = HasParam(base[x] \o routers[x].routes[i].path)
                    /\ routers'[x].routes[i].paramMatch =
                         IF routers'[x].routes[i].regex THEN base[x] \o routers[x].routes[i].path ELSE NULL
               /\ routers'[x] \in Router
    <3> DEFINE b == base[x]
               old == routers[x].routes
               new == [i \in DOMAIN old |-> Rebased(old[i], b)]
               n == Len(old)
    <3>1. x \in Routers /\ x \notin Mounted /\ b \in Path /\ old \in Seq(Route) /\ n \in Nat /\ DOMAIN old = 1..n
      BY <1>2, <1>3, <1>9, <2>6, RouterTypes
    <3>2. routers'[x] = Rebase(ts[x], b) /\ ts[x].routes = old /\ ts[x] \in Router
      BY <1>5, <1>7, <2>2, <3>1
    <3> HIDE DEF b, old
    <3>3. routers'[x] = [ts[x] EXCEPT !.basePath = b, !.routes = new]
      BY <3>2 DEF Rebase, Router
    <3>4. ASSUME NEW i \in 1..n
          PROVE  /\ new[i] \in Route /\ new[i].path = old[i].path
                 /\ new[i].regex = HasParam(b \o old[i].path)
                 /\ new[i].paramMatch = IF new[i].regex THEN b \o old[i].path ELSE NULL
      <4>1. old[i] \in Route /\ old[i].path \in Path
        <5>1. old[i] \in Route
          BY <3>1
        <5> QED
          BY <5>1 DEF Route
      <4>2. old[i].regex = HasParam(old[i].path) /\ old[i].paramMatch = NULL
        BY <1>2, <3>1 DEF RoutesOK, old
      <4>3. b \o old[i].path \in Path /\ (HasParam(b \o old[i].path) <=> HasParam(b) \/ HasParam(old[i].path))
        BY <3>1, <4>1, Concatenated
      <4>4. (old[i].regex \/ HasParam(b)) = HasParam(b \o old[i].path)
            /\ HasParam(b \o old[i].path) \in BOOLEAN
        BY <4>2, <4>3 DEF HasParam
      <4> DEFINE regex == old[i].regex \/ HasParam(b)
                 whole == b \o old[i].path
      <4>5. new[i] = [old[i] EXCEPT !.basePath = b, !.regex = regex,
                                    !.paramMatch = IF regex THEN whole ELSE @]
        BY <3>1 DEF Rebased
      <4>6. regex = HasParam(whole) /\ regex \in BOOLEAN /\ whole \in Path
        BY <4>3, <4>4
      <4> HIDE DEF regex, whole, new
      <4>7. /\ new[i] \in Route /\ new[i].path = old[i].path /\ new[i].regex = regex
            /\ new[i].paramMatch = IF regex THEN whole ELSE NULL
        BY <3>1, <4>1, <4>2, <4>5, <4>6 DEF Route
      <4> QED
        BY <4>6, <4>7 DEF whole
    <3>5. new \in Seq(Route) /\ Len(new) = n /\ DOMAIN new = 1..n
      <4>1. new \in [1..n -> Route]
        BY <3>1, <3>4
      <4> HIDE DEF new, n
      <4> QED
        BY <3>1, <4>1
    <3> HIDE DEF new
    <3>6. /\ routers'[x].basePath = b /\ routers'[x].routes = new
          /\ routers'[x].mountPath = ts[x].mountPath /\ routers'[x].children = ts[x].children
          /\ routers'[x] \in Router
      BY <3>1, <3>2, <3>3, <3>5 DEF Router
    <3> QED
      BY <3>1, <3>4, <3>5, <3>6 DEF b, old
  <2>8. \A x \in Routers \ B : routers'[x] = ts[x]
    BY <1>7, <2>2
  <2>9. \A x \in Routers : routers'[x].children = ts[x].children /\ routers'[x].mountPath = ts[x].mountPath
    BY <2>7, <2>8
  <2>10. Mounted' = Mounted \cup B /\ IsForest(routers')
    <3>1. IsForest(routers') /\ Below(routers', App) = Below(ts, App)
      <4>1. \A p \in Routers : routers'[p].children = ts[p].children
        BY <2>9
      <4>2. \A x : Below(routers', x) = Below(ts, x)
        BY <4>1, SameBelow, Zenon
      <4>3. IsForest(ts) => IsForest(routers')
        BY <4>1, SameBelow, Zenon
      <4> QED
        BY <1>6, <4>2, <4>3
    <3> QED
      BY <1>8, <1>16, <3>1 DEF Mounted
  <2>11. TypeOK'
    <3>1. \A x \in Routers : routers'[x] \in Router
      BY <1>5, <2>7, <2>8
    <3>2. routers' \in [Routers -> Router]
      BY <2>2, <3>1
    <3> QED
      BY <1>1, <1>2, <3>2 DEF TypeOK
  <2>12. BasesOK'
    <3>1. routers'[App].basePath = <<>>
      <4>1. App \in Mounted
        BY <1>3, BelowSelf DEF Mounted
      <4> QED
        BY <1>2, <1>3, <1>5, <1>9, <2>8, <4>1 DEF BasesOK
    <3>2. ASSUME NEW x \in Routers PROVE routers'[x].basePath # NULL <=> x \in Mounted'
      <4>1. CASE x \in B
        <5>1. base[x] # NULL
          BY <2>6, <4>1, RouteAssumption DEF Path
        <5> QED
          BY <2>7, <2>10, <4>1, <5>1
      <4>2. CASE x \notin B
        BY <1>2, <1>5, <2>8, <2>10, <4>2 DEF BasesOK
      <4> QED
        BY <4>1, <4>2
    <3>3. ASSUME NEW p \in Routers, NEW x \in Range(routers'[p].children)
          PROVE  /\ routers'[x].mountPath # NULL
                 /\ p \in Mounted' =>
                      routers'[x].basePath = Joined(routers'[p].basePath, routers'[x].mountPath)
      <4>1. x \in Range(ts[p].children) /\ x \in Routers /\ ts[x].mountPath \in Path
            /\ routers'[x].mountPath = ts[x].mountPath
        BY <1>10, <2>9
      <4>2. routers'[x].mountPath # NULL
        BY <4>1, RouteAssumption DEF Path
      <4>3. CASE x = r
        <5>1. p = parent
          BY <1>14, <4>1, <4>3
        <5>2. routers'[p].basePath = above /\ routers'[x].basePath = base[r]
          BY <1>1, <1>3, <2>7, <2>8, <4>3, <5>1
        <5>3. base[r] = Joined(above, ts[r].mountPath)
          BY <1>3, <2>5
        <5> QED
          BY <4>1, <4>2, <4>3, <5>2, <5>3
      <4>4. CASE x # r /\ p \in B
        <5>1. x \in B
          BY <1>6, <1>7, <4>1, <4>4, BelowChild
        <5>2. ParentOf(ts, x) = p
          BY <1>6, <4>1, OneParent
        <5>3. base[x] = Joined(base[p], ts[x].mountPath)
          BY <2>5, <4>4, <5>1, <5>2
        <5> QED
          BY <2>7, <4>1, <4>2, <4>4, <5>1, <5>3
      <4>5. CASE x # r /\ p \notin B
        <5>1. x \in Range(routers[p].children)
          BY <1>13, <4>1, <4>5
        <5>2. x \notin B
          BY <1>2, <1>3, <4>5, <5>1, ParentBelow
        <5>3. /\ routers'[x].basePath = routers[x].basePath /\ routers'[p].basePath = routers[p].basePath
              /\ ts[x].mountPath = routers[x].mountPath
          BY <1>5, <2>8, <4>1, <4>5, <5>2
        <5>4. p \in Mounted' <=> p \in Mounted
          BY <2>10, <4>5
        <5> QED
          BY <1>2, <4>1, <4>2, <5>1, <5>3, <5>4 DEF BasesOK
      <4> QED
        BY <4>3, <4>4, <4>5
    <3> QED
      BY <3>1, <3>2, <3>3 DEF BasesOK
  <2>13. RoutesOK'
    <3>1. ASSUME NEW x \in Routers PROVE Len(routers'[x].routes) <= MaxRoutes
      <4>1. CASE x \in B
        BY <1>2, <2>7, <4>1 DEF RoutesOK
      <4>2. CASE x \notin B
        BY <1>12, <2>8, <4>2
      <4> QED
        BY <4>1, <4>2
    <3>2. \A at \in late' : at[1] \in Mounted' \ {App}
      BY <1>1, <1>2, <2>10 DEF RoutesOK
    <3>3. ASSUME NEW x \in Routers, NEW i \in DOMAIN routers'[x].routes
          PROVE  LET new == routers'[x].routes[i]
                     full == routers'[x].basePath \o new.path IN
                 IF x \in Mounted' /\ <<x, i>> \notin late'
                   THEN /\ new.regex = HasParam(full)
                        /\ new.paramMatch = IF new.regex THEN full ELSE NULL
                   ELSE new.regex = HasParam(new.path) /\ new.paramMatch = NULL
      <4>1. CASE x \in B
        <5>1. x \in Mounted' /\ <<x, i>> \notin late'
          BY <1>1, <1>2, <1>9, <2>10, <4>1 DEF RoutesOK
        <5> QED
          BY <2>7, <4>1, <5>1
      <4>2. CASE x \notin B
        <5>1. routers'[x].routes = routers[x].routes /\ routers'[x].basePath = routers[x].basePath
          BY <1>5, <2>8, <4>2
        <5>2. x \in Mounted' <=> x \in Mounted
          BY <2>10, <4>2
        <5> QED
          BY <1>1, <1>2, <5>1, <5>2 DEF RoutesOK, Full
      <4> QED
        BY <4>1, <4>2
    <3> QED
      BY <3>1, <3>2, <3>3 DEF RoutesOK, Full
  <2> QED
    BY <1>1, <2>10, <2>11, <2>12, <2>13 DEF RouteInv, RequestOK, ChosenOK
<1> QED
  BY <1>15, <1>16

\* A request has the parameters of the first pattern that matches it.
LEMMA ReceiveInv ==
    ASSUME RouteInv, NEW method \in Methods, NEW path \in RequestPaths, Receive(method, path)
    PROVE  RouteInv'
<1> DEFINE found == {at \in RegexRoutes : Matches(PatternAt(at), path)}
           one == CHOOSE a \in found : \A b \in found : RouteFirst(a, b)
           first == PatternAt(one)
<1>1. /\ request' = [method    |-> method, path |-> path,
                     pathMatch |-> IF found = {} THEN <<>> ELSE first,
                     keys      |-> IF found = {} THEN <<>> ELSE Keys(first),
                     values    |-> IF found = {} THEN <<>> ELSE Values(first, path)]
      /\ phase' = "received" /\ routers' = routers /\ late' = late /\ chosen' = chosen
  BY DEF Receive, PatternAt
<1>2. path \in Seq(Words) /\ path \in Path
  <2>1. path \in Seq(Words)
    BY RouteAssumption
  <2> QED
    BY <2>1 DEF Path
<1>3. found # {} => one \in found
  <2>1. \A r \in Routers : \E n \in Nat : DOMAIN routers[r].routes = 1..n
    BY RouterTypes DEF RouteInv
  <2>2. found \subseteq RegexRoutes
    OBVIOUS
  <2> HIDE DEF found
  <2>3. found # {} => \E a \in found : \A b \in found : RouteFirst(a, b)
    BY <2>1, <2>2, FirstOfFound DEF RouteInv
  <2> QED
    BY <2>3
<1>4. found # {} => /\ one \in RegexRoutes /\ first \in Path /\ Matches(first, path)
                    /\ Keys(first) \in Seq(Params) /\ Values(first, path) \in Seq(Words)
  <2> SUFFICES ASSUME found # {}
               PROVE  /\ one \in RegexRoutes /\ first \in Path /\ Matches(first, path)
                      /\ Keys(first) \in Seq(Params) /\ Values(first, path) \in Seq(Words)
    OBVIOUS
  <2>1. one \in RegexRoutes /\ Matches(first, path)
    BY <1>3
  <2> HIDE DEF one, found
  <2>2. first \in Path
    BY <2>1, PatternsAreFull
  <2>3. Len(first) = Len(path)
    BY <2>1 DEF Matches
  <2> QED
    BY <1>2, <2>1, <2>2, <2>3, KeysAndValues
<1> HIDE DEF one
<1>5. request' \in Request
  <2>1. <<>> \in Path /\ <<>> \in Seq(Params) /\ <<>> \in Seq(Words)
    BY DEF Path
  <2> HIDE DEF found, first
  <2> QED
    BY <1>1, <1>2, <1>4, <2>1 DEF Request
<1>6. TypeOK'
  BY <1>1, <1>5 DEF RouteInv, TypeOK
<1>7. IsForest(routers') /\ BasesOK' /\ RoutesOK' /\ Mounted' = Mounted /\ RegexRoutes' = RegexRoutes
      /\ \A at : PatternAt(at)' = PatternAt(at)
  <2>1. IsForest(routers') /\ BasesOK' /\ RoutesOK' /\ Mounted' = Mounted
    BY <1>1 DEF RouteInv, BasesOK, RoutesOK, Full, Mounted
  <2>2. RegexRoutes' = RegexRoutes /\ \A at : PatternAt(at)' = PatternAt(at)
    BY <1>1 DEF Mounted, RegexRoutes, PatternAt
  <2> QED
    BY <2>1, <2>2
<1>8. RequestOK'
  <2>1. CASE found = {}
    BY <1>1, <1>7, <2>1 DEF RequestOK
  <2>2. CASE found # {}
    <3>1. /\ request'.path = path /\ request'.pathMatch = first
          /\ request'.keys = Keys(first) /\ request'.values = Values(first, path)
      BY <1>1, <2>2
    <3> QED
      BY <1>1, <1>4, <1>7, <2>2, <3>1 DEF RequestOK
  <2> QED
    BY <2>1, <2>2
<1> QED
  BY <1>1, <1>6, <1>7, <1>8 DEF RouteInv, ChosenOK

\* What routers and a request say does not change while they do not.
LEMMA SameRouting ==
    ASSUME routers' = routers, request' = request
    PROVE  /\ Mounted' = Mounted /\ RegexRoutes' = RegexRoutes
           /\ \A at : PatternAt(at)' = PatternAt(at)
           /\ \A r : RouterMatchesRequest(r)' = RouterMatchesRequest(r)
           /\ \A r : MatchRouteHandler(r)' = MatchRouteHandler(r)
<1>1. Mounted' = Mounted
  BY DEF Mounted
<1>2. RegexRoutes' = RegexRoutes /\ \A at : PatternAt(at)' = PatternAt(at)
  BY DEF Mounted, RegexRoutes, PatternAt
<1>3. \A r : RouterMatchesRequest(r)' = RouterMatchesRequest(r)
  BY DEF RouterMatchesRequest
<1>4. \A r, route : Takes(r, route)' = Takes(r, route)
  BY DEF Takes
<1>5. ASSUME NEW r PROVE MatchRouteHandler(r)' = MatchRouteHandler(r)
  <2> DEFINE fitting == {i \in DOMAIN routers[r].routes : Takes(r, routers[r].routes[i])}
  <2>1. fitting' = fitting
    BY <1>4
  <2>2. MatchRouteHandler(r) = IF fitting = {} THEN 0 ELSE Min(fitting)
    BY DEF MatchRouteHandler
  <2>3. MatchRouteHandler(r)' = IF fitting' = {} THEN 0 ELSE Min(fitting')
    BY DEF MatchRouteHandler
  <2> HIDE DEF fitting
  <2> QED
    BY <2>1, <2>2, <2>3
<1> QED
  BY <1>1, <1>2, <1>3, <1>5

\* The router that a request reaches takes its first route, if any.
LEMMA ServeInv ==
    ASSUME RouteInv, Serve
    PROVE  RouteInv'
<1>1. /\ phase = "received" /\ phase' = "served"
      /\ routers' = routers /\ late' = late /\ request' = request
      /\ chosen' = [r \in Routers |->
                      IF r \in Mounted /\ \A a \in Mounted : r \in Below(routers, a) => RouterMatchesRequest(a)
                        THEN MatchRouteHandler(r) ELSE 0]
  BY DEF Serve
<1>2. \A r \in Mounted : MatchRouteHandler(r) \in 0..MaxRoutes
  <2> SUFFICES ASSUME NEW r \in Mounted PROVE MatchRouteHandler(r) \in 0..MaxRoutes
    OBVIOUS
  <2>1. /\ r \in Routers /\ Len(routers[r].routes) \in Nat
        /\ DOMAIN routers[r].routes = 1..Len(routers[r].routes) /\ Len(routers[r].routes) <= MaxRoutes
    BY MountedTypes, RouterTypes DEF RouteInv, RoutesOK
  <2>2. MatchRouteHandler(r) = 0 \/ MatchRouteHandler(r) \in DOMAIN routers[r].routes
    BY FirstTaken
  <2>3. MaxRoutes \in Nat
    BY RouteAssumption
  <2> QED
    BY <2>1, <2>2, <2>3
<1>3. TypeOK'
  <2>1. 0 \in 0..MaxRoutes
    <3>1. MaxRoutes \in Nat
      BY RouteAssumption
    <3> QED
      BY <3>1
  <2>2. chosen' \in [Routers -> 0..MaxRoutes]
    BY <1>1, <1>2, <2>1
  <2> QED
    BY <1>1, <2>2 DEF RouteInv, TypeOK
<1>4. /\ IsForest(routers') /\ BasesOK' /\ RoutesOK' /\ Mounted' = Mounted /\ RegexRoutes' = RegexRoutes
      /\ \A at : PatternAt(at)' = PatternAt(at)
      /\ \A r : RouterMatchesRequest(r)' = RouterMatchesRequest(r) /\ MatchRouteHandler(r)' = MatchRouteHandler(r)
  <2>1. IsForest(routers') /\ BasesOK' /\ RoutesOK'
    BY <1>1 DEF RouteInv, BasesOK, RoutesOK, Full, Mounted
  <2> QED
    BY <1>1, <2>1, SameRouting
<1>5. RequestOK'
  BY <1>1, <1>4 DEF RouteInv, RequestOK
<1>6. ChosenOK'
  BY <1>1, <1>4 DEF ChosenOK
<1> QED
  BY <1>3, <1>4, <1>5, <1>6 DEF RouteInv

\* The invariant is inductive.
LEMMA RouteNextInv == RouteInv /\ [Next]_vars => RouteInv'
<1> SUFFICES ASSUME RouteInv, [Next]_vars PROVE RouteInv'
  OBVIOUS
<1>1. ASSUME NEW r \in Routers, NEW method \in Methods, NEW path \in RoutePaths, AddRoute(r, method, path)
      PROVE  RouteInv'
  BY <1>1, AddRouteInv
<1>2. ASSUME NEW parent \in Routers, NEW r \in SubRouters, NEW path \in MountPaths, UseRouter(parent, r, path)
      PROVE  RouteInv'
  BY <1>2, UseRouterInv
<1>3. ASSUME NEW method \in Methods, NEW path \in RequestPaths, Receive(method, path) PROVE RouteInv'
  BY <1>3, ReceiveInv
<1>4. CASE Serve
  BY <1>4, ServeInv
<1>5. CASE UNCHANGED vars
  <2>1. routers' = routers /\ late' = late /\ phase' = phase /\ request' = request /\ chosen' = chosen
    BY <1>5 DEF vars
  <2>2. TypeOK' /\ IsForest(routers') /\ BasesOK' /\ RoutesOK'
    BY <2>1 DEF RouteInv, TypeOK, BasesOK, RoutesOK, Full, Mounted
  <2>3. RequestOK'
    BY <2>1, SameRouting DEF RouteInv, RequestOK
  <2>4. ChosenOK'
    BY <2>1, SameRouting DEF RouteInv, ChosenOK
  <2> QED
    BY <2>2, <2>3, <2>4 DEF RouteInv
<1> QED
  BY <1>1, <1>2, <1>3, <1>4, <1>5 DEF Next

\* The inductive invariant, for any routers, mounted and given routes in any order.
THEOREM RouteInvariant == Spec => []RouteInv
<1> QED
  BY RouteInitInv, RouteNextInv, PTL DEF Spec

\* Types: what a router stores are paths and patterns, what is read from a path
\* are segments of it, and a route that is taken is one of the router's.
THEOREM RouteTypeOK == Spec => []TypeOK
<1>1. RouteInv => TypeOK
  BY DEF RouteInv
<1> QED
  BY <1>1, RouteInvariant, PTL

\* Requests are routed as routes were written, however useRouter, mountTo and
\* addRouteHandler were called: by any paths, methods and tree of routers.
THEOREM RouteRoutedAsWritten == Spec => []RoutedAsWritten
<1> QED
  BY RouteInvariant, RoutedFollows, PTL

\* req->params gives the segments of the route that serves the request, with any
\* patterns and names of parameters.
THEOREM RouteParamsAreTheRoutes == Spec => []ParamsAreTheRoutes
<1> QED
  BY RouteInvariant, ParamsFollow, PTL

=============================================================================
