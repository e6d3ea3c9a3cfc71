------------------------ MODULE ResourceQuery_Proofs ------------------------
(***************************************************************************)
(* Proofs about ResourceQuery, for whatever types, relations, tables and     *)
(* query strings.                                                          *)
(*                                                                         *)
(* IInv says what every call's copy of the query string has in common with   *)
(* the client's (IsCopy), what is therefore asked at a place (FiltersOf, a   *)
(* function of the request and of the collections above), and that tests,    *)
(* stats and collections are what was asked for there.  The properties of    *)
(* the answer follow from IInv (PropertiesFollow); each action keeps it.      *)
(***************************************************************************)
EXTENDS ResourceQuery, TLAPS, FiniteSetTheorems, WellFoundedInduction

-----------------------------------------------------------------------------
(* Sequences and sets. *)

\* A sequence, of whatever it holds.
IsSeq(s) == s \in Seq(Range(s))

\* A sequence over a set is one over what it holds.
LEMMA SequenceOf ==
    ASSUME NEW S, NEW s \in Seq(S)
    PROVE  IsSeq(s) /\ Range(s) \subseteq S /\ DOMAIN s = 1..Len(s) /\ Len(s) \in Nat
<1>1. Len(s) \in Nat /\ DOMAIN s = 1..Len(s) /\ \A k \in 1..Len(s) : s[k] \in S
  OBVIOUS
<1>2. \A k \in 1..Len(s) : s[k] \in Range(s)
  BY <1>1 DEF Range
<1>3. s \in Seq(Range(s))
  BY <1>1, <1>2
<1> QED
  BY <1>1, <1>3 DEF IsSeq, Range

\* Nothing is in the empty one.
LEMMA NothingIn == IsSeq(<<>>) /\ Range(<<>>) = {}
<1>1. PICK s : s = <<>>
  OBVIOUS
<1>2. s \in Seq({}) /\ DOMAIN s = {}
  BY <1>1
<1>3. Range(s) = {}
  BY <1>2 DEF Range
<1> QED
  BY <1>1, <1>2, <1>3 DEF IsSeq

\* One thing, or nothing.
LEMMA NoneOrOne ==
    ASSUME NEW S, NEW x \in S
    PROVE  <<>> \in Seq(S) /\ <<x>> \in Seq(S)
<1>1. PICK s : s = <<>>
  OBVIOUS
<1>2. s \in Seq(S)
  BY <1>1
<1>3. <<x>> \in Seq(S)
  OBVIOUS
<1> QED
  BY <1>1, <1>2, <1>3

\* What has a length is not empty.
LEMMA NotEmpty ==
    ASSUME NEW S, NEW s \in Seq(S), Len(s) # 0
    PROVE  s # <<>>
  OBVIOUS

\* A path of two names.
LEMMA PairOf ==
    ASSUME NEW a, NEW b
    PROVE  /\ IsSeq(<<a, b>>) /\ <<a, b>> # <<>> /\ Len(<<a, b>>) = 2
           /\ <<a, b>>[1] = a /\ <<a, b>>[2] = b
<1> DEFINE q == <<a, b>>
<1>1. q \in Seq({a, b}) /\ Len(q) = 2 /\ q[1] = a /\ q[2] = b
  OBVIOUS
<1> HIDE DEF q
<1>2. q # <<>>
  BY <1>1, NotEmpty
<1>3. IsSeq(q)
  BY <1>1, SequenceOf
<1> QED
  BY <1>1, <1>2, <1>3 DEF q

\* The beginning of a sequence.
LEMMA Beginning ==
    ASSUME NEW S, NEW s \in Seq(S), NEW n \in 0..Len(s)
    PROVE  /\ SubSeq(s, 1, n) \in Seq(S) /\ Len(SubSeq(s, 1, n)) = n
           /\ \A k \in 1..n : SubSeq(s, 1, n)[k] = s[k]
  OBVIOUS

\* A prefix, place by place.
Begins(p, q) == Len(q) <= Len(p) /\ \A k \in 1..Len(q) : p[k] = q[k]

\* A prefix is told by its places.
LEMMA PrefixByPlaces ==
    ASSUME NEW S, NEW p \in Seq(S), NEW q \in Seq(S)
    PROVE  IsPrefix(q, p) <=> Begins(p, q)
<1>1. ASSUME Len(q) <= Len(p)
      PROVE  /\ SubSeq(p, 1, Len(q)) \in Seq(S) /\ Len(SubSeq(p, 1, Len(q))) = Len(q)
             /\ \A k \in 1..Len(q) : SubSeq(p, 1, Len(q))[k] = p[k]
  BY <1>1
<1>2. SubSeq(q, 1, Len(q)) = q
  OBVIOUS
<1>3. ASSUME Len(q) <= Len(p)
      PROVE SubSeq(p, 1, Len(q)) = q <=> \A k \in 1..Len(q) : p[k] = q[k]
  BY <1>1, <1>3
<1> QED
  BY <1>2, <1>3 DEF IsPrefix, Begins

\* The paths below one name,
LEMMA PrefixOfOne ==
    ASSUME NEW p, IsSeq(p), NEW a
    PROVE  IsPrefix(<<a>>, p) <=> Len(p) >= 1 /\ p[1] = a
<1> DEFINE q == <<a>>
           T == Range(p) \cup {a}
<1>1. q \in Seq(T) /\ Len(q) = 1 /\ q[1] = a
  OBVIOUS
<1>2. p \in Seq(T) /\ Len(p) \in Nat
  BY DEF IsSeq
<1> HIDE DEF q, T
<1>3. IsPrefix(q, p) <=> Begins(p, q)
  BY <1>1, <1>2, PrefixByPlaces
<1>4. IsPrefix(q, p) <=> Len(p) >= 1 /\ p[1] = a
  BY <1>1, <1>2, <1>3 DEF Begins
<1> QED
  BY <1>4 DEF q

\* below two,
LEMMA PrefixOfTwo ==
    ASSUME NEW p, IsSeq(p), NEW a, NEW b
    PROVE  IsPrefix(<<a, b>>, p) <=> Len(p) >= 2 /\ p[1] = a /\ p[2] = b
<1> DEFINE q == <<a, b>>
           T == Range(p) \cup {a, b}
<1>1. q \in Seq(T) /\ Len(q) = 2 /\ q[1] = a /\ q[2] = b
  OBVIOUS
<1>2. p \in Seq(T) /\ Len(p) \in Nat
  BY DEF IsSeq
<1> HIDE DEF q, T
<1>3. IsPrefix(q, p) <=> Begins(p, q)
  BY <1>1, <1>2, PrefixByPlaces
<1>4. IsPrefix(q, p) <=> Len(p) >= 2 /\ p[1] = a /\ p[2] = b
  BY <1>1, <1>2, <1>3 DEF Begins
<1> QED
  BY <1>4 DEF q

\* and below three.
LEMMA PrefixOfThree ==
    ASSUME NEW p, IsSeq(p), NEW a, NEW b, NEW c
    PROVE  IsPrefix(<<a, b, c>>, p) <=> Len(p) >= 3 /\ p[1] = a /\ p[2] = b /\ p[3] = c
<1> DEFINE q == <<a, b, c>>
           T == Range(p) \cup {a, b, c}
<1>1. q \in Seq(T) /\ Len(q) = 3 /\ q[1] = a /\ q[2] = b /\ q[3] = c
  OBVIOUS
<1>2. p \in Seq(T) /\ Len(p) \in Nat
  BY DEF IsSeq
<1> HIDE DEF q, T
<1>3. IsPrefix(q, p) <=> Begins(p, q)
  BY <1>1, <1>2, PrefixByPlaces
<1>4. IsPrefix(q, p) <=> Len(p) >= 3 /\ p[1] = a /\ p[2] = b /\ p[3] = c
  BY <1>1, <1>2, <1>3 DEF Begins
<1> QED
  BY <1>4 DEF q

\* All but the last of a sequence.
LEMMA FrontOfSequence ==
    ASSUME NEW S, NEW s \in Seq(S), s # <<>>
    PROVE  /\ Front(s) \in Seq(S) /\ Len(Front(s)) = Len(s) - 1
           /\ \A k \in 1..Len(s) - 1 : Front(s)[k] = s[k]
           /\ Last(s) \in S /\ Last(s) = s[Len(s)] /\ Len(s) \in Nat \ {0}
<1>1. Len(s) \in Nat \ {0} /\ Len(s) - 1 \in 0..Len(s) /\ s[Len(s)] \in S
  OBVIOUS
<1> QED
  BY <1>1, Beginning DEF Front, Last

\* All but the last of a sequence to which that was appended.
LEMMA FrontOfAppend ==
    ASSUME NEW S, NEW s \in Seq(S), NEW x \in S
    PROVE  Front(Append(s, x)) = s /\ Last(Append(s, x)) = x /\ Append(s, x) # <<>>
<1>1. Len(Append(s, x)) = Len(s) + 1 /\ Append(s, x)[Len(s) + 1] = x
  OBVIOUS
<1>2. SubSeq(Append(s, x), 1, Len(s)) = s
  OBVIOUS
<1> QED
  BY <1>1, <1>2 DEF Front, Last

\* A finite set in some order.
LEMMA SetToSeqOfFinite ==
    ASSUME NEW S, IsFiniteSet(S)
    PROVE  /\ SetToSeq(S) \in Seq(S) /\ Range(SetToSeq(S)) = S
           /\ SetToSeq(S) = <<>> <=> S = {}
<1> DEFINE n == Cardinality(S)
<1>1. n \in Nat /\ ExistsBijection(1..n, S)
  BY FS_CardinalityType
<1>2. PICK f \in [1..n -> S] : IsInjective(f) /\ Range(f) = S
  <2>1. PICK g \in Bijection(1..n, S) : TRUE
    BY <1>1 DEF ExistsBijection
  <2>2. IsInjective(g)
    BY <2>1 DEF Bijection, Injection, IsInjective
  <2>3. Range(g) = S
    BY <2>1 DEF Bijection, Surjection, Range
  <2> QED
    BY <2>1, <2>2, <2>3 DEF Bijection, Injection
<1>3. SetToSeq(S) \in [1..n -> S] /\ IsInjective(SetToSeq(S))
  BY <1>2 DEF SetToSeq
<1> DEFINE q == SetToSeq(S)
<1> HIDE DEF q
<1>4. q \in Seq(S) /\ DOMAIN q = 1..n
  BY <1>1, <1>3 DEF q
<1>5. Range(q) = S
  <2>1. q \in Injection(1..n, S)
    BY <1>3 DEF q, Injection, IsInjective
  <2>2. IsFiniteSet(1..n) /\ Cardinality(1..n) = n
    BY <1>1, FS_Interval
  <2>3. q \in Surjection(1..n, S)
    BY <2>1, <2>2, FS_Injection
  <2> QED
    BY <1>4, <2>3 DEF Surjection, Range
<1>6. n = 0 <=> S = {}
  BY FS_EmptySet
<1>7. q = <<>> <=> S = {}
  BY <1>1, <1>4, <1>6
<1> QED
  BY <1>4, <1>5, <1>7 DEF q

\* Less is the order of the naturals, as a relation.
Less == {pair \in Nat \X Nat : pair[1] < pair[2]}

\* Min, a CHOOSE, is the least of a set of naturals.
LEMMA LeastOfNaturals ==
    ASSUME NEW S, S \subseteq Nat, S # {}
    PROVE  Min(S) \in S /\ \A n \in S : Min(S) <= n
<1>1. IsWellFoundedOn(Less, Nat)
  <2>1. Less = OpToRel(<, Nat)
    BY DEF Less, OpToRel
  <2> QED
    BY <2>1, NatLessThanWellFounded, Zenon
<1>2. PICK m \in S : \A n \in S : ~(<<n, m>> \in Less)
  BY <1>1, WFMin
<1>3. ASSUME NEW n \in S
      PROVE  m <= n
  <2>1. n \in Nat /\ m \in Nat /\ (n < m => <<n, m>> \in Less)
    BY DEF Less
  <2> QED
    BY <1>2, <2>1
<1> QED
  BY <1>3 DEF Min

\* The greatest is the least by the distance from a bound.
LEMMA GreatestOfNaturals ==
    ASSUME NEW S, NEW b \in Nat, S \subseteq 0..b, S # {}
    PROVE  Max(S) \in S /\ \A n \in S : n <= Max(S)
<1> DEFINE D == {b - n : n \in S}
<1>1. D \subseteq Nat /\ D # {}
  <2>1. \A n \in S : n \in 0..b
    OBVIOUS
  <2>2. \A n \in S : b - n \in Nat
    BY <2>1
  <2> QED
    BY <2>2
<1>2. Min(D) \in D /\ \A n \in D : Min(D) <= n
  BY <1>1, LeastOfNaturals
<1>3. PICK m \in S : Min(D) = b - m
  BY <1>2
<1>4. \A n \in S : b - m <= b - n
  BY <1>2, <1>3
<1>5. \A n \in S : m >= n
  BY <1>4
<1>6. Max(S) \in S /\ \A n \in S : Max(S) >= n
  BY <1>5 DEF Max
<1> QED
  BY <1>6

\* As many as their images, where no two have the same.
LEMMA AsManyImages ==
    ASSUME NEW S, IsFiniteSet(S), NEW T, NEW f \in [S -> T], IsInjective(f)
    PROVE  IsFiniteSet(Range(f)) /\ Cardinality(Range(f)) = Cardinality(S)
<1>1. f \in [S -> Range(f)]
  BY DEF Range
<1>2. f \in Bijection(S, Range(f))
  BY <1>1 DEF Bijection, Injection, Surjection, IsInjective, Range
<1> QED
  BY <1>2, FS_Bijection DEF ExistsBijection

\* Finitely many have finitely many images.
LEMMA FiniteImage ==
    ASSUME NEW S, IsFiniteSet(S), NEW T, NEW f \in [S -> T]
    PROVE  IsFiniteSet(Range(f))
<1>1. f \in [S -> Range(f)]
  BY DEF Range
<1>2. f \in Surjection(S, Range(f))
  BY <1>1 DEF Surjection, Range
<1> QED
  BY <1>2, FS_Surjection

-----------------------------------------------------------------------------
(* What is asked at a place, read off the request and the collections above. *)

\* The filter that an include's rows are related by: none without ids, behind the
\* client's own filter of that column, or if filter is no object.
LinkKey(path, t) == ForeignKey(colls[Front(path)].type, t)
LinkIds(path, t) == RelatedIds(Front(path), colls[Front(path)].type, t, colls[Front(path)].rows)
IsLinked(path, t) ==
    /\ path # <<>> /\ LinkIds(path, t) # {} /\ LeavesAt(Params, <<"filter">>) = {}
    /\ t \in Above(path) \/ DOMAIN Under(Params, <<"filter", t, LinkKey(path, t)>>) = {}
LinkFilter(path, t) ==
    [column |-> LinkKey(path, t), op |-> "eq", values |-> SetToSeq(LinkIds(path, t)), short |-> TRUE]

AskedAt(path, t)   == {f \in FiltersAt(path, t) : IsAsked(t, f)}
FiltersOf(path, t) == AskedAt(path, t) \cup (IF IsLinked(path, t) THEN {LinkFilter(path, t)} ELSE {})
TestsOf(path, t)   == {TestOf(t, f) : f \in FiltersOf(path, t)}

\* The instance that the statement of a type makes of a row.
ColumnsAt(t) ==
    (IF DOMAIN Under(Params, <<"fields">>) = {} THEN ColumnsOf(t) ELSE Range(Names(Params, t))) \ {"id"}
InstanceAt(t, row) == [id |-> row.id, cells |-> [c \in ColumnsAt(t) |-> row[c]]]
AllAt(path) ==
    {InstanceAt(colls[path].type, row) :
        row \in Matching(colls[path].seen, TestsOf(path, colls[path].type))}

-----------------------------------------------------------------------------
(* The inductive invariant. *)

Working == pc \in {"filters", "stats", "rows"}

\* A place is below collections, each included for the one above.
IsPlace(path, t) ==
    /\ path \in Seq(Nat) /\ t \in Types
    /\ \A n \in 0..(Len(path) - 1) : SubSeq(path, 1, n) \in DOMAIN colls
    /\ IF path = <<>> THEN t = request.type ELSE LinkKey(path, t) # None

\* A query string, and what the copies of the client's have in common with it.
IsQuery(q) ==
    /\ DOMAIN q \subseteq Nat
    /\ \A k \in DOMAIN q :
         /\ IsSeq(PathOf(q[k])) /\ PathOf(q[k]) # <<>>
         /\ PathOf(q[k])[1] = "filter" => q[k][2] \in Seq(Cell)
         /\ k = RelatedPlace => IsOwn(q[k])
Whole(leaf) == PathOf(leaf)[1] \in {"fields", "page"}
IsCopy(q, above, inner) ==
    /\ IsQuery(q)
    /\ \A k \in DOMAIN q : Whole(q[k]) => k \in DOMAIN Params /\ q[k] = Params[k]
    /\ \A k \in DOMAIN Params : Whole(Params[k]) => k \in DOMAIN q /\ q[k] = Params[k]
    /\ \A t \in Types : {leaf \in Range(q) : IsTyped(leaf, t)} =
                        IF t \in above THEN {} ELSE {leaf \in Range(Params) : IsTyped(leaf, t)}
    /\ LeavesAt(q, <<"filter">>) = {} <=> LeavesAt(Params, <<"filter">>) = {}
    /\ \A leaf \in LeavesAt(q, <<"sort">>) : \A item \in Range(leaf[2]) :
         /\ item \in Range(ValuesAt(Params, <<"sort">>))
         /\ inner => item.type # None

WorldOK ==
    /\ DOMAIN tables = Types /\ \A t \in Types : IsTable(t, tables[t])
    /\ request \in Requests
    /\ pc \in {"filters", "stats", "rows", "include", "done", "crashed"}
    /\ writes \in 0..MaxWrites /\ failures \in 0..MaxFailures

StackOK ==
    /\ IsSeq(stack)
    /\ Working \/ pc = "include" => stack # <<>>
    /\ \A k \in DOMAIN stack :
         /\ stack[k] = [path |-> stack[k].path, type |-> stack[k].type,
                        query |-> stack[k].query, next |-> stack[k].next]
         /\ IsPlace(stack[k].path, stack[k].type) /\ Len(stack[k].path) = k - 1
         /\ stack[k].next \in Nat \ {0}
         /\ \A j \in 1..k : stack[j].path = SubSeq(stack[k].path, 1, j - 1)
         /\ k > 1 => stack[k].path[k - 1] < stack[k - 1].next
         /\ \A i \in Nat : i >= stack[k].next => Append(stack[k].path, i) \notin DOMAIN colls
         /\ stack[k].path \in DOMAIN colls => colls[stack[k].path].type = stack[k].type
    /\ Working => Top.path \notin DOMAIN colls
    /\ pc = "include" => Top.path \in DOMAIN colls

QueriesOK ==
    \A k \in DOMAIN stack : IsCopy(stack[k].query, {stack[j].type : j \in 1..k}, k > 1)

\* A stat, of the rows that were asked for at its place.
IsStat(e) ==
    /\ IsStatValue(e) /\ IsPlace(e.path, e.of) /\ IsTable(e.of, e.seen)
    /\ e.ok /\ Summarises(e) => e.over = {row.id : row \in Matching(e.seen, TestsOf(e.path, e.of))}

Stays == scope.stat # <<>> /\ ~scope.stat[1].ok
Refusable ==
    \/ \E c \in B!Conditions(scope.query) : c.empty
    \/ \E test \in scope.tests : KindOf(Top.type, test.column) # "string" /\ Blank \in Range(test.values)

QueryOK ==
    /\ scope = [query |-> scope.query, todo |-> scope.todo, tests |-> scope.tests, page |-> <<>>,
                asked |-> scope.asked, stat |-> scope.stat]
    /\ scope.query \in B!Query
    /\ scope.query.having = <<>> /\ scope.query.order = <<>> /\ scope.query.clauses = {}
    /\ scope.query.select = IF Stays THEN <<"count(*)">> ELSE <<>>
    /\ B!Marks(scope.query) = 1..Len(scope.query.params)
    /\ \A c \in B!Conditions(scope.query) : c.empty => \E test \in scope.tests : test.values = <<>>

ScopeOK ==
    Working =>
        /\ scope.todo \subseteq FiltersOf(Top.path, Top.type)
        /\ pc # "filters" => scope.todo = {}
        /\ scope.tests \cup {TestOf(Top.type, f) : f \in scope.todo} = TestsOf(Top.path, Top.type)
        /\ DOMAIN scope.asked \subseteq Nat
        /\ \A k \in DOMAIN scope.asked : scope.asked[k].type \in {None, Top.type}
        /\ scope.stat # <<>> =>
             /\ pc # "filters" /\ scope.stat = <<scope.stat[1]>> /\ IsStat(scope.stat[1])
             /\ scope.stat[1].path = Top.path /\ scope.stat[1].of = Top.type
        /\ Stays /\ failures = 0 => Refusable

IsAnswer(path) ==
    LET c == colls[path] IN
    /\ IsPlace(path, c.type) /\ c.ok \in BOOLEAN
    /\ IsTable(c.type, c.seen) /\ IsFiniteSet(c.rows)
    /\ \A r \in c.rows : r.id \in Nat /\ IsInstance(c.type, r)
    /\ ~c.ok => c.rows = {} /\ MayBeRefused(path, c.type)
    /\ CountStays(path) => (\A r \in c.rows : DOMAIN r.cells = {}) /\ (failures = 0 => c.rows = {})
    /\ c.ok /\ ~CountStays(path) =>
         /\ ColumnsAt(c.type) \subseteq ColumnsOf(c.type) /\ c.rows \subseteq AllAt(path)
         /\ ~Finds(path) => Cardinality(c.rows) = PageSize(Cardinality(AllAt(path)), PageOf(Params))

CollsOK == \A path \in DOMAIN colls : IsAnswer(path)

StatsOK ==
    /\ IsSeq(stats)
    /\ \A k \in DOMAIN stats :
         /\ IsStat(stats[k])
         /\ IF stats[k].path \in DOMAIN colls THEN colls[stats[k].path].type = stats[k].of
            ELSE pc = "rows" /\ stats[k].path = Top.path /\ stats[k].of = Top.type
    /\ \A j, k \in DOMAIN stats : stats[j].path = stats[k].path => j = k
    /\ pc = "rows" => (CountStays(Top.path) <=> Stays)

CrashOK ==
    pc = "crashed" =>
        \/ failures > 0 \/ MayBeRefused(Top.path, Top.type)
        \/ \E f \in FiltersAt(Top.path, Top.type) : IsAsked(Top.type, f) /\ CrashesOn(f)
        \/ DOMAIN scope.asked # {} /\ StatCrashes(Ask, Top.type)

IInv == WorldOK /\ StackOK /\ QueriesOK /\ QueryOK /\ ScopeOK /\ CollsOK /\ StatsOK /\ CrashOK

-----------------------------------------------------------------------------
(* Relations of the models. *)

\* The key of a relation is a column of the child, and the name of no type.
LEMMA KeyOfRelation ==
    ASSUME NEW c, NEW p, RelationsOf(c, p) # {}
    PROVE  /\ c \in Types /\ p \in Types
           /\ KeyOf(c, p) \in Keys(c) /\ KeyOf(c, p) # "id" /\ KeyOf(c, p) # None
           /\ KeyOf(c, p) \in ColumnsOf(c) /\ KeyOf(c, p) \notin Types
           /\ KindOf(c, KeyOf(c, p)) = "integer"
<1> DEFINE r == CHOOSE x \in RelationsOf(c, p) : TRUE
<1>1. r \in RelationsOf(c, p)
  OBVIOUS
<1> HIDE DEF r
<1>2. r \in Relations /\ r.child = c /\ r.parent = p
  BY <1>1 DEF RelationsOf
<1>3. c \in Types /\ p \in Types
  BY <1>2, TypesAssumption
<1>4. KeyOf(c, p) = r.key /\ r.key \in Keys(c)
  BY <1>2 DEF KeyOf, Keys, r
<1>5. r.key \in ColumnsOf(c)
  BY <1>4 DEF ColumnsOf
<1>6. r.key # "id" /\ r.key \notin DOMAIN Attributes[c] /\ r.key \notin Types /\ r.key # None
  BY <1>3, <1>4, <1>5, TypesAssumption
<1> QED
  BY <1>3, <1>4, <1>5, <1>6 DEF KindOf

\* The key that an include is asked by is a number of its own table.
LEMMA KeyOfInclude ==
    ASSUME NEW t \in Types, NEW u \in Types, ForeignKey(t, u) # None
    PROVE  /\ ForeignKey(t, u) \in ColumnsOf(u) /\ ForeignKey(t, u) \notin Types
           /\ KindOf(u, ForeignKey(t, u)) = "integer"
           /\ IF RelationsOf(u, t) # {} THEN ForeignKey(t, u) = KeyOf(u, t) /\ KeyOf(u, t) # "id"
              ELSE ForeignKey(t, u) = "id" /\ RelationsOf(t, u) # {} /\ BelongsToKey(t, u) = KeyOf(t, u)
<1>1. CASE RelationsOf(u, t) # {}
  BY <1>1, KeyOfRelation DEF ForeignKey
<1>2. CASE RelationsOf(u, t) = {}
  <2>1. RelationsOf(t, u) # {} /\ ForeignKey(t, u) = "id"
    BY <1>2 DEF ForeignKey
  <2>2. "id" \in ColumnsOf(u) /\ "id" \notin Types /\ KindOf(u, "id") = "integer"
    BY TypesAssumption DEF ColumnsOf, KindOf
  <2> QED
    BY <1>2, <2>1, <2>2 DEF BelongsToKey
<1> QED
  BY <1>1, <1>2

-----------------------------------------------------------------------------
(* Query strings. *)

\* A filter for a type is told by the names in its path.
LEMMA TypedByPlaces ==
    ASSUME NEW leaf, IsSeq(PathOf(leaf)), NEW t
    PROVE  IsTyped(leaf, t) <=> Len(PathOf(leaf)) > 2 /\ PathOf(leaf)[1] = "filter" /\ PathOf(leaf)[2] = t
<1> DEFINE p == PathOf(leaf)
<1>1. IsSeq(p) /\ Len(p) \in Nat
  BY DEF IsSeq
<1> HIDE DEF p
<1>2. IsPrefix(<<"filter", t>>, p) <=> Len(p) >= 2 /\ p[1] = "filter" /\ p[2] = t
  BY <1>1, PrefixOfTwo
<1> QED
  BY <1>1, <1>2 DEF IsTyped, Within, p

\* The client's query string: no path is in it twice, and its place is free.
LEMMA ParsedRequest ==
    ASSUME NEW r \in Requests
    PROVE  LET q == Parsed(r.params) IN
           /\ IsQuery(q) /\ DOMAIN q \subseteq Nat \ {0}
           /\ \A k \in DOMAIN q : IsValues(PathOf(q[k]), q[k][2])
           /\ \A j, k \in DOMAIN q : PathOf(q[j]) = PathOf(q[k]) => j = k
<1> DEFINE ps == r.params
           kept == {k \in DOMAIN ps : \A j \in DOMAIN ps :
                      j > k => ~SameKey(ps[j], ps[k]) /\ ~Clash(ps[j], ps[k])}
           same(k) == {j \in 1..k : /\ SameKey(ps[j], ps[k])
                                    /\ \A i \in j..k : ~Clash(ps[i], ps[k])}
           place(k) == Min(same(k))
           of(p) == CHOOSE k \in kept : place(k) = p
           q == Parsed(ps)
<1>1. /\ ps \in Seq(Range(ps)) /\ DOMAIN ps \subseteq Nat \ {0}
      /\ \A k \in DOMAIN ps : /\ IsSeq(PathOf(ps[k])) /\ PathOf(ps[k]) # <<>>
                              /\ IsValues(PathOf(ps[k]), ps[k][2])
  <2>1. ps \in Seq(Range(ps))
    BY RequestsAssumption
  <2>2. \A k \in DOMAIN ps : ps[k] \in Range(ps)
    BY DEF Range
  <2>3. DOMAIN ps \subseteq Nat \ {0}
    BY <2>1
  <2> QED
    BY <2>1, <2>2, <2>3, RequestsAssumption DEF PathOf, IsSeq, IsPath
<1>2. q = [p \in {place(k) : k \in kept} |-> ps[of(p)]]
  BY DEF Parsed
<1> HIDE DEF q
<1>3. \A k \in kept : place(k) \in same(k) /\ place(k) \in Nat \ {0}
  <2> SUFFICES ASSUME NEW k \in kept
               PROVE  place(k) \in same(k) /\ place(k) \in Nat \ {0}
    OBVIOUS
  <2>1. k \in Nat \ {0}
    BY <1>1
  <2>2. k \in same(k)
    BY <2>1 DEF SameKey, Clash
  <2>3. same(k) \subseteq Nat \ {0}
    BY <2>1
  <2> HIDE DEF same
  <2> QED
    BY <2>2, <2>3, LeastOfNaturals
<1>4. \A p \in DOMAIN q : \E k \in kept : place(k) = p /\ k \in DOMAIN ps /\ q[p] = ps[k]
  <2> SUFFICES ASSUME NEW p \in DOMAIN q
               PROVE  \E k \in kept : place(k) = p /\ k \in DOMAIN ps /\ q[p] = ps[k]
    OBVIOUS
  <2> HIDE DEF place
  <2>1. \E k \in kept : place(k) = p
    BY <1>2
  <2> QED
    BY <1>2, <2>1
<1>5. DOMAIN q \subseteq Nat \ {0}
  BY <1>2, <1>3
<1>6. \A p \in DOMAIN q : IsSeq(PathOf(q[p])) /\ PathOf(q[p]) # <<>> /\ IsValues(PathOf(q[p]), q[p][2])
  BY <1>1, <1>4
<1>7. IsQuery(q)
  <2> SUFFICES ASSUME NEW k \in DOMAIN q, PathOf(q[k])[1] = "filter"
               PROVE  q[k][2] \in Seq(Cell)
    BY <1>5, <1>6 DEF IsQuery, RelatedPlace
  <2> QED
    BY <1>6 DEF IsValues
<1>8. ASSUME NEW j \in DOMAIN q, NEW k \in DOMAIN q, PathOf(q[j]) = PathOf(q[k])
      PROVE  j = k
  <2>1. PICK a \in kept : place(a) = j /\ q[j] = ps[a] /\ a \in DOMAIN ps
    BY <1>4, Zenon
  <2>2. PICK b \in kept : place(b) = k /\ q[k] = ps[b] /\ b \in DOMAIN ps
    BY <1>4, Zenon
  <2>3. SameKey(ps[a], ps[b]) /\ SameKey(ps[b], ps[a])
    BY <2>1, <2>2, <1>8 DEF SameKey
  <2>4. ~(a > b) /\ ~(b > a)
    BY <2>1, <2>2, <2>3
  <2>5. a \in Nat /\ b \in Nat
    BY <1>1, <2>1, <2>2
  <2> QED
    BY <2>1, <2>2, <2>4, <2>5
<1> QED
  BY <1>5, <1>6, <1>7, <1>8 DEF q

\* A leaf of a copy stands where it stood; filters, fields and pages are whole.
LEMMA CopiedLeaf ==
    ASSUME NEW leaf, IsSeq(PathOf(leaf)), NEW rest
    PROVE  /\ PathOf(Copied(leaf, rest)) = PathOf(leaf)
           /\ PathOf(leaf)[1] \notin {"include", "sort"} => Copied(leaf, rest) = leaf
           /\ PathOf(leaf) = <<"sort">> =>
                \A item \in Range(Copied(leaf, rest)[2]) : item \in Range(leaf[2]) /\ item.type # None
<1> DEFINE p == PathOf(leaf)
           typed == {k \in DOMAIN leaf[2] : leaf[2][k].type # None}
<1>1. <<"include">>[1] = "include" /\ <<"sort">>[1] = "sort"
  OBVIOUS
<1>2. CASE p = <<"include">>
  BY <1>1, <1>2 DEF Copied, PathOf
<1>3. CASE p = <<"sort">>
  <2>1. Copied(leaf, rest) = <<p, Restrict(leaf[2], typed)>>
    BY <1>1, <1>3 DEF Copied
  <2>2. \A item \in Range(Restrict(leaf[2], typed)) : item \in Range(leaf[2]) /\ item.type # None
    BY DEF Range, Restrict
  <2> QED
    BY <1>1, <1>3, <2>1, <2>2 DEF PathOf
<1>4. CASE p # <<"include">> /\ p # <<"sort">>
  BY <1>4 DEF Copied
<1> QED
  BY <1>2, <1>3, <1>4

\* What a copy has in common with the client's is as before, but for its own filters.
LEMMA IncludedCopy ==
    ASSUME NEW q, NEW above, NEW inner, IsCopy(q, above, inner),
           NEW fk, fk \notin Types, NEW rest, NEW ids, IsFiniteSet(ids), ids \subseteq Cell
    PROVE  LET r == IncludedQuery(q, fk, rest, ids) IN
           /\ IsCopy(r, above, TRUE)
           /\ {leaf \in Range(r) : IsOwn(leaf)} =
                IF LeavesAt(Params, <<"filter">>) = {} THEN {<<<<"filter", fk>>, SetToSeq(ids)>>} ELSE {}
<1> DEFINE r == IncludedQuery(q, fk, rest, ids)
           kept == {k \in DOMAIN q : Carried(q[k], rest)}
           free == LeavesAt(q, <<"filter">>) = {}
           link == <<<<"filter", fk>>, SetToSeq(ids)>>
<1>1. IsQuery(q)
  BY DEF IsCopy
<1>2. /\ DOMAIN r = kept \cup (IF free THEN {0} ELSE {})
      /\ \A k \in kept : k # 0 /\ r[k] = Copied(q[k], rest)
      /\ free => r[0] = link
  <2>1. \A k \in kept : k # 0
    BY <1>1 DEF IsQuery, IsOwn, Carried, RelatedPlace
  <2> QED
    BY <2>1 DEF IncludedQuery, RelatedPlace
<1>3. /\ PathOf(link) = <<"filter", fk>> /\ IsSeq(PathOf(link)) /\ PathOf(link) # <<>>
      /\ Len(PathOf(link)) = 2 /\ PathOf(link)[1] = "filter" /\ PathOf(link)[2] = fk
      /\ link[2] \in Seq(Cell) /\ IsOwn(link)
  <2>1. SetToSeq(ids) \in Seq(ids)
    BY SetToSeqOfFinite
  <2>2. SetToSeq(ids) \in Seq(Cell)
    BY <2>1
  <2>3. PathOf(link) = <<"filter", fk>> /\ link[2] = SetToSeq(ids)
    BY DEF PathOf
  <2>4. /\ IsSeq(<<"filter", fk>>) /\ <<"filter", fk>> # <<>> /\ Len(<<"filter", fk>>) = 2
        /\ <<"filter", fk>>[1] = "filter" /\ <<"filter", fk>>[2] = fk
    BY PairOf
  <2> HIDE DEF link
  <2> QED
    BY <2>2, <2>3, <2>4 DEF IsOwn
<1>4. free <=> LeavesAt(Params, <<"filter">>) = {}
  BY DEF IsCopy
<1> HIDE DEF r, link, free
<1>5. \A k \in kept : /\ k \in DOMAIN q /\ k \in Nat
                      /\ IsSeq(PathOf(q[k])) /\ PathOf(q[k]) # <<>>
                      /\ PathOf(r[k]) = PathOf(q[k])
                      /\ PathOf(q[k])[1] \notin {"include", "sort"} => r[k] = q[k]
  BY <1>1, <1>2, CopiedLeaf DEF IsQuery
<1>6. \A k \in DOMAIN q : PathOf(q[k])[1] \in {"fields", "page"} => k \in kept
  BY DEF Carried
<1>7. \A k \in kept : ~IsOwn(q[k]) /\ ~IsOwn(r[k])
  <2>1. \A k \in kept : ~IsOwn(q[k])
    BY DEF Carried, IsOwn
  <2> QED
    BY <1>5, <2>1 DEF IsOwn
<1>8. IsQuery(r)
  <2> SUFFICES ASSUME NEW k \in DOMAIN r
               PROVE  /\ k \in Nat /\ IsSeq(PathOf(r[k])) /\ PathOf(r[k]) # <<>>
                      /\ PathOf(r[k])[1] = "filter" => r[k][2] \in Seq(Cell)
                      /\ k = 0 => IsOwn(r[k])
    BY DEF IsQuery, RelatedPlace
  <2>1. CASE k \in kept
    BY <1>1, <1>2, <1>5, <2>1 DEF IsQuery
  <2>2. CASE k = 0 /\ free
    BY <1>2, <1>3, <2>2
  <2> QED
    BY <1>2, <2>1, <2>2
<1>9. \A k \in DOMAIN r : Whole(r[k]) => k \in DOMAIN Params /\ r[k] = Params[k]
  <2> SUFFICES ASSUME NEW k \in DOMAIN r, Whole(r[k])
               PROVE  k \in DOMAIN Params /\ r[k] = Params[k]
    OBVIOUS
  <2>1. k \in kept
    BY <1>2, <1>3 DEF Whole
  <2>2. r[k] = q[k]
    BY <2>1, <1>5 DEF Whole
  <2> QED
    BY <2>1, <2>2 DEF IsCopy
<1>10. \A k \in DOMAIN Params : Whole(Params[k]) => k \in DOMAIN r /\ r[k] = Params[k]
  <2> SUFFICES ASSUME NEW k \in DOMAIN Params, Whole(Params[k])
               PROVE  k \in DOMAIN r /\ r[k] = Params[k]
    OBVIOUS
  <2>1. k \in DOMAIN q /\ q[k] = Params[k]
    BY DEF IsCopy
  <2>2. k \in kept /\ r[k] = q[k]
    BY <2>1, <1>5, <1>6 DEF Whole
  <2> QED
    BY <1>2, <2>1, <2>2
<1>11. ASSUME NEW t \in Types
       PROVE  {leaf \in Range(r) : IsTyped(leaf, t)} = {leaf \in Range(q) : IsTyped(leaf, t)}
  <2>1. ASSUME NEW k \in DOMAIN r, IsTyped(r[k], t)
        PROVE  r[k] \in Range(q)
    <3>1. k \in kept
      BY <1>2, <1>3, <2>1, TypedByPlaces
    <3>2. r[k] = q[k]
      BY <3>1, <1>5, <2>1, TypedByPlaces
    <3> QED
      BY <3>1, <3>2 DEF Range
  <2>2. ASSUME NEW k \in DOMAIN q, IsTyped(q[k], t)
        PROVE  q[k] \in Range(r)
    <3>1. PathOf(q[k])[1] = "filter" /\ PathOf(q[k])[2] = t
      BY <1>1, <2>2, TypedByPlaces DEF IsQuery
    <3>2. k \in kept
      BY <3>1 DEF Carried
    <3>3. k \in DOMAIN r /\ r[k] = q[k]
      BY <3>1, <3>2, <1>2, <1>5
    <3> QED
      BY <3>3 DEF Range
  <2> QED
    BY <2>1, <2>2 DEF Range
<1>12. LeavesAt(r, <<"filter">>) = {} <=> LeavesAt(Params, <<"filter">>) = {}
  <2>1. ASSUME NEW k \in DOMAIN q, PathOf(q[k]) = <<"filter">>
        PROVE  LeavesAt(r, <<"filter">>) # {}
    <3>1. PathOf(q[k])[1] = "filter" /\ Len(PathOf(q[k])) = 1
      BY <2>1
    <3>2. k \in kept /\ k \in DOMAIN r /\ PathOf(r[k]) = <<"filter">>
      BY <3>1, <2>1, <1>2, <1>5 DEF Carried
    <3> QED
      BY <3>2 DEF LeavesAt, Range
  <2>2. ASSUME NEW k \in DOMAIN r, PathOf(r[k]) = <<"filter">>
        PROVE  LeavesAt(q, <<"filter">>) # {}
    <3>1. Len(PathOf(r[k])) = 1
      BY <2>2
    <3>2. k # 0 \/ ~free
      BY <3>1, <1>2, <1>3
    <3>3. k \in kept
      BY <3>2, <1>2
    <3> QED
      BY <3>3, <2>2, <1>5 DEF LeavesAt, Range
  <2>3. LeavesAt(q, <<"filter">>) = {} <=> LeavesAt(r, <<"filter">>) = {}
    BY <2>1, <2>2 DEF LeavesAt, Range
  <2> QED
    BY <2>3 DEF IsCopy
<1>13. ASSUME NEW leaf \in LeavesAt(r, <<"sort">>), NEW item \in Range(leaf[2])
       PROVE  item \in Range(ValuesAt(Params, <<"sort">>)) /\ item.type # None
  <2>1. PICK k \in DOMAIN r : leaf = r[k] /\ PathOf(r[k]) = <<"sort">>
    BY DEF LeavesAt, Range
  <2>2. PathOf(r[k])[1] = "sort"
    BY <2>1
  <2>3. k \in kept
    BY <2>2, <1>2, <1>3
  <2>4. PathOf(q[k]) = <<"sort">> /\ q[k] \in LeavesAt(q, <<"sort">>)
    BY <2>1, <2>3, <1>5 DEF LeavesAt, Range
  <2>5. item \in Range(q[k][2]) /\ item.type # None
    BY <2>1, <2>3, <2>4, <1>2, <1>5, CopiedLeaf
  <2> QED
    BY <2>4, <2>5 DEF IsCopy
<1>14. IsCopy(r, above, TRUE)
  <2>1. \A t \in Types : {leaf \in Range(r) : IsTyped(leaf, t)} =
                IF t \in above THEN {} ELSE {leaf \in Range(Params) : IsTyped(leaf, t)}
    BY <1>11, Zenon DEF IsCopy
  <2> QED
    BY <1>8, <1>9, <1>10, <2>1, <1>12, <1>13 DEF IsCopy
<1>15. {leaf \in Range(r) : IsOwn(leaf)} = IF LeavesAt(Params, <<"filter">>) = {} THEN {link} ELSE {}
  <2>1. CASE free
    BY <2>1, <1>2, <1>3, <1>4, <1>7 DEF Range
  <2>2. CASE ~free
    BY <2>2, <1>2, <1>4, <1>7 DEF Range
  <2> QED
    BY <2>1, <2>2
<1> QED
  BY <1>14, <1>15 DEF r, link

\* What a call consumes of its query is the filters for its own type.
LEMMA ConsumedCopy ==
    ASSUME NEW q, NEW above, NEW inner, IsCopy(q, above, inner), NEW u \in Types
    PROVE  IsCopy(Consumed(q, u), above \cup {u}, inner)
<1> DEFINE r == Consumed(q, u)
           kept == {k \in DOMAIN q : ~Within(<<"filter", u>>, q[k])}
<1>1. IsQuery(q)
  BY DEF IsCopy
<1>2. DOMAIN r = kept /\ \A k \in kept : k \in DOMAIN q /\ r[k] = q[k]
  BY DEF Consumed, Restrict
<1>3. \A k \in DOMAIN q : IsSeq(PathOf(q[k])) /\ Len(PathOf(q[k])) \in Nat /\ PathOf(q[k]) # <<>>
  BY <1>1 DEF IsQuery, IsSeq
<1>4. \A k \in DOMAIN q : k \in kept <=>
          ~(Len(PathOf(q[k])) >= 2 /\ PathOf(q[k])[1] = "filter" /\ PathOf(q[k])[2] = u)
  BY <1>3, PrefixOfTwo DEF Within
<1> HIDE DEF r, kept
<1>5. IsQuery(r)
  BY <1>1, <1>2 DEF IsQuery
<1>6. \A k \in DOMAIN r : Whole(r[k]) => k \in DOMAIN Params /\ r[k] = Params[k]
  BY <1>2 DEF IsCopy
<1>7. \A k \in DOMAIN Params : Whole(Params[k]) => k \in DOMAIN r /\ r[k] = Params[k]
  BY <1>2, <1>4 DEF IsCopy, Whole
<1>8. ASSUME NEW t \in Types
      PROVE  {leaf \in Range(r) : IsTyped(leaf, t)} =
                IF t \in above \cup {u} THEN {} ELSE {leaf \in Range(Params) : IsTyped(leaf, t)}
  <2>1. CASE t = u
    <3>1. \A k \in DOMAIN r : ~IsTyped(r[k], u)
      BY <1>2, <1>3, <1>4, TypedByPlaces
    <3> QED
      BY <2>1, <3>1 DEF Range
  <2>2. CASE t # u
    <3>1. \A k \in DOMAIN q : IsTyped(q[k], t) => k \in kept
      BY <1>3, <1>4, <2>2, TypedByPlaces
    <3>2. {leaf \in Range(r) : IsTyped(leaf, t)} = {leaf \in Range(q) : IsTyped(leaf, t)}
      BY <1>2, <3>1 DEF Range
    <3> QED
      BY <2>2, <3>2 DEF IsCopy
  <2> QED
    BY <2>1, <2>2
<1>9. LeavesAt(r, <<"filter">>) = {} <=> LeavesAt(Params, <<"filter">>) = {}
  <2>1. \A k \in DOMAIN q : PathOf(q[k]) = <<"filter">> => k \in kept
    BY <1>4
  <2>2. LeavesAt(r, <<"filter">>) = LeavesAt(q, <<"filter">>)
    BY <1>2, <2>1 DEF LeavesAt, Range
  <2> QED
    BY <2>2 DEF IsCopy
<1>10. ASSUME NEW leaf \in LeavesAt(r, <<"sort">>), NEW item \in Range(leaf[2])
       PROVE  item \in Range(ValuesAt(Params, <<"sort">>)) /\ (inner => item.type # None)
  <2>1. leaf \in LeavesAt(q, <<"sort">>)
    BY <1>2 DEF LeavesAt, Range
  <2> QED
    BY <2>1 DEF IsCopy
<1>11. IsCopy(r, above \cup {u}, inner)
  BY <1>5, <1>6, <1>7, <1>8, <1>9, <1>10 DEF IsCopy
<1> QED
  BY <1>11 DEF r

\* The client's own query string, before anything is copied.
LEMMA ClientsCopy ==
    ASSUME request \in Requests
    PROVE  IsCopy(Params, {}, FALSE)
<1>1. /\ IsQuery(Params)
      /\ \A j, k \in DOMAIN Params : PathOf(Params[j]) = PathOf(Params[k]) => j = k
  BY ParsedRequest DEF Params
<1>2. ASSUME NEW leaf \in LeavesAt(Params, <<"sort">>), NEW item \in Range(leaf[2])
      PROVE  item \in Range(ValuesAt(Params, <<"sort">>))
  <2>1. \A other \in LeavesAt(Params, <<"sort">>) : other = leaf
    BY <1>1 DEF LeavesAt, Range
  <2>2. ValuesAt(Params, <<"sort">>) = leaf[2]
    BY <2>1 DEF ValuesAt
  <2> QED
    BY <2>2
<1> QED
  BY <1>1, <1>2 DEF IsCopy

-----------------------------------------------------------------------------
(* Filters. *)

\* A filter for a type is one of the attribute behind the type's name.
LEMMA FilterOfTyped ==
    ASSUME NEW t \in Types, NEW leaf, IsSeq(PathOf(leaf)), IsTyped(leaf, t)
    PROVE  FilterOf(leaf, t).column = PathOf(leaf)[3]
  BY TypedByPlaces DEF FilterOf

\* The filters of the outermost call are those the client gave for it.
LEMMA FiltersOfClient ==
    ASSUME request \in Requests
    PROVE  Filters(Params, request.type) = FiltersOf(<<>>, request.type)
<1> DEFINE t == request.type
<1>1. IsQuery(Params) /\ t \in Types
  BY ParsedRequest, RequestsAssumption DEF Params
<1>2. Above(<<>>) = {}
  BY DEF Above
<1>3. ASSUME NEW leaf \in Range(Params)
      PROVE  IsSeq(PathOf(leaf)) /\ Len(PathOf(leaf)) \in Nat
  BY <1>1 DEF IsQuery, Range, IsSeq
<1>4. ASSUME NEW leaf \in Range(Params), NEW other \in Range(Params)
      PROVE  Within(<<"filter", t, PathOf(leaf)[2]>>, other)
                <=> IsTyped(other, t) /\ PathOf(other)[3] = PathOf(leaf)[2]
  BY <1>3, PrefixOfThree, TypedByPlaces DEF Within
<1>5. ASSUME NEW leaf \in Range(Params)
      PROVE  Concerns(Params, t, leaf) <=>
                \/ IsTyped(leaf, t) /\ t \notin Above(<<>>)
                \/ /\ <<>> = <<>> /\ IsOwn(leaf)
                   /\ ~\E m \in Range(Params) : IsTyped(m, t) /\ PathOf(m)[3] = PathOf(leaf)[2]
  BY <1>2, <1>4 DEF Concerns
<1>6. {l \in Range(Params) : Concerns(Params, t, l)} =
        {l \in Range(Params) :
            \/ IsTyped(l, t) /\ t \notin Above(<<>>)
            \/ /\ <<>> = <<>> /\ IsOwn(l)
               /\ ~\E m \in Range(Params) : IsTyped(m, t) /\ PathOf(m)[3] = PathOf(l)[2]}
  BY <1>5
<1>7. Filters(Params, t) = AskedAt(<<>>, t)
  BY <1>6 DEF Filters, AskedAt, FiltersAt
<1> QED
  BY <1>7 DEF FiltersOf, IsLinked

\* The ids to relate to, as long as the collection above is what it should be.
LEMMA LinkIdsAreCells ==
    ASSUME NEW path, NEW u \in Types, NEW t \in Types, colls[Front(path)].type = t,
           LinkKey(path, u) # None, IsFiniteSet(colls[Front(path)].rows),
           \A b \in colls[Front(path)].rows : b.id \in Nat /\ IsInstance(t, b)
    PROVE  IsFiniteSet(LinkIds(path, u)) /\ LinkIds(path, u) \subseteq Cell
<1> DEFINE rows == colls[Front(path)].rows
<1>1. LinkKey(path, u) = ForeignKey(t, u)
  BY DEF LinkKey
<1>2. CASE ForeignKey(t, u) = "id" /\ ~Finds(Front(path))
  <2> DEFINE f == [b \in rows |-> Get(b, BelongsToKey(t, u))]
  <2>1. BelongsToKey(t, u) # "id"
    <3>1. RelationsOf(t, u) # {} /\ BelongsToKey(t, u) = KeyOf(t, u)
      BY <1>1, <1>2, KeyOfInclude
    <3> QED
      BY <3>1, KeyOfRelation
  <2>2. Range(f) \subseteq Cell \cup {NullText} /\ f \in [rows -> Cell \cup {NullText}]
    <3>1. \A b \in rows : Get(b, BelongsToKey(t, u)) \in Cell \cup {NullText}
      BY <2>1 DEF Get, IsInstance
    <3> QED
      BY <3>1 DEF Range
  <2>3. IsFiniteSet(Range(f))
    <3> HIDE DEF f, rows
    <3> QED
      BY <2>2, FiniteImage DEF rows
  <2>4. LinkIds(path, u) = Range(f) \ {NullText}
    BY <1>2 DEF LinkIds, RelatedIds, Range
  <2> HIDE DEF f
  <2>5. LinkIds(path, u) \in SUBSET Range(f) /\ LinkIds(path, u) \subseteq Cell
    BY <2>2, <2>4
  <2> QED
    BY <2>3, <2>5, FS_Subset
<1>3. CASE ~(ForeignKey(t, u) = "id" /\ ~Finds(Front(path)))
  <2> DEFINE f == [b \in rows |-> b.id]
  <2>1. LinkIds(path, u) = Range(f)
    BY <1>3 DEF LinkIds, RelatedIds, Range
  <2>2. IsFiniteSet(Range(f))
    <3>1. f \in [rows -> Nat]
      OBVIOUS
    <3> HIDE DEF f, rows
    <3> QED
      BY <3>1, FiniteImage DEF rows
  <2>3. Range(f) \subseteq Cell
    BY DEF Range, Cell
  <2> QED
    BY <2>1, <2>2, <2>3
<1> QED
  BY <1>2, <1>3

\* The filters of an include are those the client gave for its type, unless it was
\* asked above, and the ids.
LEMMA FiltersOfInclude ==
    ASSUME NEW path, path # <<>>, NEW t \in Types, NEW u \in Types, colls[Front(path)].type = t,
           LinkKey(path, u) # None, IsFiniteSet(LinkIds(path, u)),
           NEW q, IsCopy(q, Above(path), TRUE),
           {leaf \in Range(q) : IsOwn(leaf)} =
                IF LeavesAt(Params, <<"filter">>) = {}
                THEN {<<<<"filter", LinkKey(path, u)>>, SetToSeq(LinkIds(path, u))>>} ELSE {},
           IsQuery(Params)
    PROVE  Filters(q, u) = FiltersOf(path, u)
<1> DEFINE fk == LinkKey(path, u)
           ids == LinkIds(path, u)
           link == <<<<"filter", fk>>, SetToSeq(ids)>>
           free == LeavesAt(Params, <<"filter">>) = {}
           typed == {leaf \in Range(q) : IsTyped(leaf, u)}
           client == {leaf \in Range(Params) : IsTyped(leaf, u)}
           shadowed == DOMAIN Under(Params, <<"filter", u, fk>>) # {}
<1>1. typed = IF u \in Above(path) THEN {} ELSE client
  BY DEF IsCopy
<1>2. /\ fk \notin Types /\ fk # u /\ fk \in ColumnsOf(u) /\ KindOf(u, fk) = "integer"
  BY KeyOfInclude DEF LinkKey
<1>3. \A leaf \in Range(q) \cup Range(Params) : IsSeq(PathOf(leaf)) /\ Len(PathOf(leaf)) \in Nat
  BY DEF IsCopy, IsQuery, Range, IsSeq
<1>4. \A leaf \in Range(q) \cup Range(Params) :
        Within(<<"filter", u, fk>>, leaf) <=> IsTyped(leaf, u) /\ PathOf(leaf)[3] = fk
  BY <1>3, PrefixOfThree, TypedByPlaces DEF Within
<1>5. (\E other \in Range(q) : Within(<<"filter", u, fk>>, other)) <=> u \notin Above(path) /\ shadowed
  <2>1. shadowed <=> \E other \in Range(Params) : Within(<<"filter", u, fk>>, other)
    BY DEF Under, Restrict, Range
  <2>2. shadowed <=> \E other \in client : PathOf(other)[3] = fk
    BY <1>4, <2>1
  <2>3. (\E other \in Range(q) : Within(<<"filter", u, fk>>, other))
          <=> \E other \in typed : PathOf(other)[3] = fk
    BY <1>4
  <2> QED
    BY <1>1, <2>2, <2>3
<1>6. /\ PathOf(link) = <<"filter", fk>> /\ Len(PathOf(link)) = 2 /\ PathOf(link)[2] = fk
      /\ link[2] = SetToSeq(ids) /\ IsSeq(PathOf(link))
  BY PairOf DEF PathOf
<1>7. FilterOf(link, u) = LinkFilter(path, u)
  <2> HIDE DEF fk, link
  <2>1. PathOf(link)[2] # u /\ ~(Len(PathOf(link)) > 2 + 1)
    <3>1. fk # u /\ PathOf(link)[2] = fk /\ Len(PathOf(link)) = 2
      BY <1>2, <1>6
    <3>2. \A n : n = 2 => ~(n > 2 + 1)
      OBVIOUS
    <3> QED
      BY <3>1, <3>2
  <2>2. FilterOf(link, u) = [column |-> PathOf(link)[2], op |-> "eq", values |-> link[2], short |-> TRUE]
    BY <1>6, <2>1 DEF FilterOf
  <2> QED
    BY <1>6, <2>2 DEF LinkFilter, fk
<1>8. IsAsked(u, LinkFilter(path, u)) <=> ids # {}
  <2>1. "eq" \in FiltersOn(u, fk)
    BY <1>2 DEF FiltersOn, EqualityFilters
  <2>2. SetToSeq(ids) = <<>> <=> ids = {}
    BY SetToSeqOfFinite
  <2> QED
    BY <2>1, <2>2 DEF IsAsked, LinkFilter
<1>9. ASSUME NEW leaf
      PROVE  leaf \in Range(q) /\ Concerns(q, u, leaf) <=>
                leaf \in typed \/ (leaf = link /\ free /\ ~(u \notin Above(path) /\ shadowed))
  <2>1. leaf \in Range(q) /\ IsOwn(leaf) <=> free /\ leaf = link
    BY DEF IsOwn
  <2> QED
    BY <2>1, <1>5, <1>6 DEF Concerns
<1> DEFINE asked == {f \in {FilterOf(leaf, u) : leaf \in typed} : IsAsked(u, f)}
<1>10. AskedAt(path, u) = asked
  <2>1. FiltersAt(path, u) = {FilterOf(leaf, u) : leaf \in typed}
    BY <1>1 DEF FiltersAt
  <2> QED
    BY <2>1 DEF AskedAt
<1>11. IsLinked(path, u) <=> ids # {} /\ free /\ ~(u \notin Above(path) /\ shadowed)
  BY DEF IsLinked
<1> HIDE DEF link, free, typed, client, shadowed, ids, fk
<1>12. Filters(q, u) = asked \cup (IF IsLinked(path, u) THEN {LinkFilter(path, u)} ELSE {})
  <2>1. ASSUME NEW f
        PROVE  f \in Filters(q, u) <=>
                 (\E leaf : leaf \in Range(q) /\ Concerns(q, u, leaf) /\ f = FilterOf(leaf, u)) /\ IsAsked(u, f)
    BY DEF Filters
  <2>2. ASSUME NEW f
        PROVE  f \in Filters(q, u) <=> f \in asked \/ (IsLinked(path, u) /\ f = LinkFilter(path, u))
    BY <2>1, <1>7, <1>8, <1>9, <1>11
  <2> QED
    BY <2>2
<1> QED
  BY <1>10, <1>12 DEF FiltersOf

\* What the callback of a filter makes of its values: the texts it binds.
LEMMA TestOfFilter ==
    ASSUME NEW t \in Types, NEW f, f.values \in Seq(Cell), IsAsked(t, f)
    PROVE  /\ TestOf(t, f).column = f.column /\ f.column \in ColumnsOf(t)
           /\ TestOf(t, f).values \in Seq(Int)
           /\ TestOf(t, f).values = <<>> => f.values = <<>> /\ f.op \in Equalities
           /\ Range(TestOf(t, f).values) \subseteq Range(f.values) \cup {NullText}
<1> DEFINE vs == TestOf(t, f).values
<1>1. TestOf(t, f).column = f.column /\ f.column \in ColumnsOf(t)
  BY DEF TestOf, IsAsked, FiltersOn
<1>2. CASE f.op \in Equalities
  <2>1. vs = f.values /\ f.values \in Seq(Int)
    BY <1>2 DEF TestOf, Cell, Blank
  <2> QED
    BY <1>1, <1>2, <2>1
<1>3. CASE f.op \notin Equalities /\ f.values = <<>>
  <2>1. vs = <<NullText>> /\ NullText \in Int
    BY <1>3 DEF TestOf, NullText
  <2> QED
    BY <1>1, <2>1 DEF Range
<1>4. CASE f.op \notin Equalities /\ f.values # <<>>
  <2>1. vs = <<f.values[1]>>
    BY <1>4 DEF TestOf
  <2>2. 1 \in DOMAIN f.values /\ f.values[1] \in Cell
    BY <1>4
  <2>3. f.values[1] \in Int
    BY <2>2 DEF Cell, Blank
  <2> QED
    BY <1>1, <2>1, <2>2, <2>3 DEF Range
<1> QED
  BY <1>2, <1>3, <1>4

\* The values of the filters at a place are cells, the client's as the related ids.
LEMMA FiltersHaveCells ==
    ASSUME NEW path, NEW t \in Types, IsQuery(Params),
           IsLinked(path, t) => IsFiniteSet(LinkIds(path, t)) /\ LinkIds(path, t) \subseteq Cell,
           NEW f \in FiltersOf(path, t)
    PROVE  f.values \in Seq(Cell) /\ (f \in AskedAt(path, t) => IsAsked(t, f) /\ f \in FiltersAt(path, t))
<1>1. CASE f \in AskedAt(path, t)
  <2>1. PICK leaf \in Range(Params) : f = FilterOf(leaf, t) /\ (IsTyped(leaf, t) \/ IsOwn(leaf))
    BY <1>1 DEF AskedAt, FiltersAt
  <2>2. IsSeq(PathOf(leaf)) /\ (PathOf(leaf)[1] = "filter" => leaf[2] \in Seq(Cell))
    BY DEF IsQuery, Range
  <2>3. PathOf(leaf)[1] = "filter"
    BY <2>1, <2>2, TypedByPlaces DEF IsOwn
  <2>4. f.values \in {leaf[2], <<>>}
    BY <2>1 DEF FilterOf
  <2>5. <<>> \in Seq(Cell)
    OBVIOUS
  <2>6. f.values \in Seq(Cell)
    BY <2>2, <2>3, <2>4, <2>5
  <2> QED
    BY <1>1, <2>6 DEF AskedAt
<1>2. CASE f \notin AskedAt(path, t)
  <2>1. IsLinked(path, t) /\ f.values = SetToSeq(LinkIds(path, t))
    BY <1>2 DEF FiltersOf, LinkFilter
  <2>2. SetToSeq(LinkIds(path, t)) \in Seq(LinkIds(path, t))
    BY <2>1, SetToSeqOfFinite
  <2> QED
    BY <1>2, <2>1, <2>2
<1> QED
  BY <1>1, <1>2

\* The ids as a condition: its column is one of them.
LEMMA LinkTest ==
    ASSUME NEW path, NEW u \in Types, KindOf(u, LinkKey(path, u)) = "integer", NEW row,
           IsFiniteSet(LinkIds(path, u)), LinkIds(path, u) \subseteq Cell
    PROVE  /\ TestOf(u, LinkFilter(path, u)).values = SetToSeq(LinkIds(path, u))
           /\ TestOf(u, LinkFilter(path, u)).column = LinkKey(path, u)
           /\ Passes(row, TestOf(u, LinkFilter(path, u)))
                 <=> row[LinkKey(path, u)] \in LinkIds(path, u) \ {Blank}
<1> DEFINE fk == LinkKey(path, u)
           ids == LinkIds(path, u)
           test == TestOf(u, LinkFilter(path, u))
<1>1. test = [column |-> fk, op |-> "eq", values |-> SetToSeq(ids)]
  BY DEF TestOf, LinkFilter, Equalities
<1>2. Range(SetToSeq(ids)) = ids
  BY SetToSeqOfFinite
<1>3. NullText \notin ids
  BY DEF NullText, Cell, Blank
<1>4. "eq" \notin DOMAIN Negations
  BY DEF Negations
<1>5. Passes(row, test) <=> row[fk] # Blank /\ \E v \in ids : row[fk] = v
  BY <1>1, <1>2, <1>3, <1>4 DEF Passes, Compare
<1> QED
  BY <1>1, <1>5

\* A row passes all tests iff the client wants it and an include's ids have its key.
LEMMA MatchingIsWanted ==
    ASSUME NEW path, NEW u \in Types, KindOf(u, LinkKey(path, u)) = "integer" \/ ~IsLinked(path, u),
           IsLinked(path, u) => IsFiniteSet(LinkIds(path, u)) /\ LinkIds(path, u) \subseteq Cell,
           NEW rows, NEW row \in rows
    PROVE  row \in Matching(rows, TestsOf(path, u)) <=>
              /\ Wanted(path, u, row)
              /\ IsLinked(path, u) => row[LinkKey(path, u)] \in LinkIds(path, u) \ {Blank}
<1>1. row \in Matching(rows, TestsOf(path, u)) <=>
        \A f \in FiltersOf(path, u) : Passes(row, TestOf(u, f))
  BY DEF Matching, TestsOf
<1>2. Wanted(path, u, row) <=> \A f \in AskedAt(path, u) : Passes(row, TestOf(u, f))
  BY DEF Wanted, AskedAt
<1>3. CASE IsLinked(path, u)
  BY <1>1, <1>2, <1>3, LinkTest DEF FiltersOf
<1>4. CASE ~IsLinked(path, u)
  BY <1>1, <1>2, <1>4 DEF FiltersOf
<1> QED
  BY <1>3, <1>4

\* The value at a path is that of the leaves there.
LEMMA SameLeaves ==
    ASSUME NEW q, NEW r, NEW p, LeavesAt(q, p) = LeavesAt(r, p)
    PROVE  ValuesAt(q, p) = ValuesAt(r, p)
<1>1. (CHOOSE leaf \in LeavesAt(q, p) : TRUE) = (CHOOSE leaf \in LeavesAt(r, p) : TRUE)
  BY Zenon
<1> QED
  BY <1>1 DEF ValuesAt

\* What a copy keeps whole says the same.
LEMMA WholeIsKept ==
    ASSUME NEW q, NEW above, NEW inner, IsCopy(q, above, inner), IsQuery(Params)
    PROVE  /\ \A p : p[1] \in {"fields", "page"} => LeavesAt(q, p) = LeavesAt(Params, p)
           /\ Under(q, <<"fields">>) = Under(Params, <<"fields">>)
<1>1. ASSUME NEW p, p[1] \in {"fields", "page"}
      PROVE  LeavesAt(q, p) = LeavesAt(Params, p)
  <2>1. \A leaf : PathOf(leaf) = p => Whole(leaf)
    BY <1>1 DEF Whole
  <2>2. ASSUME NEW leaf, leaf \in LeavesAt(q, p)
        PROVE  leaf \in LeavesAt(Params, p)
    BY <2>1, <2>2 DEF LeavesAt, IsCopy, Range
  <2>3. ASSUME NEW leaf, leaf \in LeavesAt(Params, p)
        PROVE  leaf \in LeavesAt(q, p)
    BY <2>1, <2>3 DEF LeavesAt, IsCopy, Range
  <2> QED
    BY <2>2, <2>3
<1>2. \A k \in DOMAIN q : Within(<<"fields">>, q[k]) => Whole(q[k]) /\ k \in DOMAIN Params /\ q[k] = Params[k]
  <2> SUFFICES ASSUME NEW k \in DOMAIN q, Within(<<"fields">>, q[k])
               PROVE  Whole(q[k]) /\ k \in DOMAIN Params /\ q[k] = Params[k]
    OBVIOUS
  <2>1. IsSeq(PathOf(q[k]))
    BY DEF IsCopy, IsQuery
  <2>2. PathOf(q[k])[1] = "fields"
    BY <2>1, PrefixOfOne DEF Within
  <2> QED
    BY <2>2 DEF Whole, IsCopy
<1>3. \A k \in DOMAIN Params : Within(<<"fields">>, Params[k]) => k \in DOMAIN q /\ q[k] = Params[k]
  <2> SUFFICES ASSUME NEW k \in DOMAIN Params, Within(<<"fields">>, Params[k])
               PROVE  k \in DOMAIN q /\ q[k] = Params[k]
    OBVIOUS
  <2>1. IsSeq(PathOf(Params[k]))
    BY DEF IsQuery
  <2>2. PathOf(Params[k])[1] = "fields"
    BY <2>1, PrefixOfOne DEF Within
  <2> QED
    BY <2>2 DEF Whole, IsCopy
<1> DEFINE D == {k \in DOMAIN q : Within(<<"fields">>, q[k])}
           E == {k \in DOMAIN Params : Within(<<"fields">>, Params[k])}
<1>4. D = E /\ \A k \in D : q[k] = Params[k]
  BY <1>2, <1>3
<1>5. Under(q, <<"fields">>) = [k \in D |-> q[k]] /\ Under(Params, <<"fields">>) = [k \in E |-> Params[k]]
  BY DEF Under, Restrict
<1> QED
  BY <1>1, <1>4, <1>5

\* What lists a type is below "fields".
LEMMA ListedIsUnder ==
    ASSUME NEW r, IsQuery(r), NEW t
    PROVE  IsListed(r, t) <=>
             \E k \in DOMAIN Under(r, <<"fields">>) : Within(<<"fields", t>>, Under(r, <<"fields">>)[k])
<1> DEFINE D == {k \in DOMAIN r : Within(<<"fields">>, r[k])}
<1>1. Under(r, <<"fields">>) = [k \in D |-> r[k]]
  BY DEF Under, Restrict
<1>2. ASSUME NEW k \in DOMAIN r, Within(<<"fields", t>>, r[k])
      PROVE  Within(<<"fields">>, r[k])
  <2>1. IsSeq(PathOf(r[k])) /\ PathOf(r[k]) # <<>>
    BY DEF IsQuery
  <2>2. PathOf(r[k])[1] = "fields"
    BY <1>2, <2>1, PrefixOfTwo DEF Within
  <2> QED
    BY <2>1, <2>2, PrefixOfOne DEF Within
<1>3. IsListed(r, t) <=> \E k \in DOMAIN r : Within(<<"fields", t>>, r[k])
  BY DEF IsListed, Range
<1>4. IsListed(r, t) <=> \E k \in D : Within(<<"fields", t>>, r[k])
  BY <1>2, <1>3
<1> HIDE DEF D
<1> QED
  BY <1>1, <1>4

\* So its pages and fields are those the client asked for.
LEMMA AskedAsWell ==
    ASSUME NEW q, NEW above, NEW inner, IsCopy(q, above, inner), IsQuery(Params), NEW t, NEW s
    PROVE  /\ Names(q, t) = Names(Params, t)
           /\ WithFields(s, q, t) = WithFields(s, Params, t)
           /\ WithPage(s, q) = WithPage(s, Params)
<1>1. \A p : p[1] \in {"fields", "page"} => LeavesAt(q, p) = LeavesAt(Params, p)
  BY WholeIsKept
<1>2. Under(q, <<"fields">>) = Under(Params, <<"fields">>)
  BY WholeIsKept
<1>3. ValuesAt(q, <<"fields", t>>) = ValuesAt(Params, <<"fields", t>>) /\ (IsListed(q, t) <=> IsListed(Params, t))
  <2>1. LeavesAt(q, <<"fields", t>>) = LeavesAt(Params, <<"fields", t>>)
    BY <1>1, PairOf
  <2>2. IsQuery(q)
    BY DEF IsCopy
  <2>3. \A r : IsQuery(r) => (IsListed(r, t) <=>
                 \E k \in DOMAIN Under(r, <<"fields">>) : Within(<<"fields", t>>, Under(r, <<"fields">>)[k]))
    BY ListedIsUnder
  <2> QED
    BY <1>2, <2>1, <2>2, <2>3, SameLeaves
<1>4. ValuesAt(q, <<"page", "number">>) = ValuesAt(Params, <<"page", "number">>)
  <2>1. LeavesAt(q, <<"page", "number">>) = LeavesAt(Params, <<"page", "number">>)
    BY <1>1, PairOf
  <2> QED
    BY <2>1, SameLeaves
<1>5. ValuesAt(q, <<"page", "size">>) = ValuesAt(Params, <<"page", "size">>)
  <2>1. LeavesAt(q, <<"page", "size">>) = LeavesAt(Params, <<"page", "size">>)
    BY <1>1, PairOf
  <2> QED
    BY <2>1, SameLeaves
<1>6. Names(q, t) = Names(Params, t)
  BY <1>2, <1>3 DEF Names
<1>7. WithFields(s, q, t) = WithFields(s, Params, t)
  BY <1>2, <1>6 DEF WithFields
<1>8. WithPage(s, q) = WithPage(s, Params)
  BY <1>4, <1>5 DEF WithPage, PageOf
<1> QED
  BY <1>6, <1>7, <1>8

\* Two sequences put together.
LEMMA Together ==
    ASSUME NEW s, IsSeq(s), NEW r, IsSeq(r)
    PROVE  /\ IsSeq(s \o r) /\ Range(s \o r) = Range(s) \cup Range(r)
           /\ Len(s \o r) = Len(s) + Len(r) /\ Len(s) \in Nat /\ Len(r) \in Nat
           /\ \A k \in 1..Len(s) : (s \o r)[k] = s[k]
<1> DEFINE T == Range(s) \cup Range(r)
<1>1. s \in Seq(T) /\ r \in Seq(T)
  BY DEF IsSeq
<1> HIDE DEF T
<1>2. /\ s \o r \in Seq(T) /\ Len(s \o r) = Len(s) + Len(r) /\ Len(s) \in Nat /\ Len(r) \in Nat
      /\ \A k \in 1..Len(s) : (s \o r)[k] = s[k]
      /\ \A k \in 1..Len(r) : (s \o r)[Len(s) + k] = r[k]
  BY <1>1
<1>3. Range(s \o r) \subseteq Range(s) \cup Range(r)
  <2> SUFFICES ASSUME NEW k \in 1..Len(s) + Len(r)
               PROVE  (s \o r)[k] \in Range(s) \cup Range(r)
    BY <1>2 DEF Range
  <2>1. CASE k <= Len(s)
    BY <1>1, <1>2, <2>1 DEF Range
  <2>2. CASE k > Len(s)
    <3>1. k - Len(s) \in 1..Len(r) /\ Len(s) + (k - Len(s)) = k
      BY <1>2, <2>2
    <3>2. (s \o r)[k] = r[k - Len(s)] /\ k - Len(s) \in DOMAIN r
      BY <1>1, <1>2, <3>1
    <3> QED
      BY <3>2 DEF Range
  <2> QED
    BY <1>2, <2>1, <2>2
<1>4. Range(s) \subseteq Range(s \o r)
  <2> SUFFICES ASSUME NEW k \in 1..Len(s)
               PROVE  s[k] \in Range(s \o r)
    BY <1>1 DEF Range
  <2>1. k \in DOMAIN (s \o r) /\ (s \o r)[k] = s[k]
    BY <1>2
  <2> QED
    BY <2>1 DEF Range
<1>5. Range(r) \subseteq Range(s \o r)
  <2> SUFFICES ASSUME NEW k \in 1..Len(r)
               PROVE  r[k] \in Range(s \o r)
    <3>1. DOMAIN r = 1..Len(r)
      BY <1>1
    <3> QED
      BY <3>1 DEF Range
  <2>1. Len(s) + k \in DOMAIN (s \o r) /\ (s \o r)[Len(s) + k] = r[k]
    BY <1>2
  <2> QED
    BY <2>1 DEF Range
<1>6. IsSeq(s \o r)
  BY <1>2, SequenceOf
<1> QED
  BY <1>2, <1>3, <1>4, <1>5, <1>6

\* What is at a path of the client's query string is what it wrote there.
LEMMA ValuesAsWritten ==
    ASSUME request \in Requests, NEW p
    PROVE  IF LeavesAt(Params, p) = {} THEN ValuesAt(Params, p) = <<>>
           ELSE \E leaf \in Range(Params) : /\ PathOf(leaf) = p /\ ValuesAt(Params, p) = leaf[2]
                                            /\ IsValues(p, leaf[2])
<1>1. CASE LeavesAt(Params, p) = {}
  BY <1>1 DEF ValuesAt
<1>2. CASE LeavesAt(Params, p) # {}
  <2>1. PICK leaf \in LeavesAt(Params, p) : ValuesAt(Params, p) = leaf[2]
    <3> DEFINE l == CHOOSE leaf \in LeavesAt(Params, p) : TRUE
    <3>1. l \in LeavesAt(Params, p)
      BY <1>2
    <3>2. ValuesAt(Params, p) = l[2]
      BY <1>2 DEF ValuesAt
    <3> QED
      BY <3>1, <3>2
  <2>2. leaf \in Range(Params) /\ PathOf(leaf) = p
    BY <2>1 DEF LeavesAt
  <2>3. \A k \in DOMAIN Params : IsValues(PathOf(Params[k]), Params[k][2])
    BY ParsedRequest DEF Params
  <2>4. IsValues(p, leaf[2])
    BY <2>2, <2>3 DEF Range
  <2> QED
    BY <1>2, <2>1, <2>2, <2>4
<1> QED
  BY <1>1, <1>2

\* Fields are listed one after the other.
LEMMA FieldsAreListed ==
    ASSUME request \in Requests, NEW t
    PROVE  /\ IsSeq(ValuesAt(Params, <<"fields", t>>))
           /\ IsListed(Params, t) => DOMAIN Under(Params, <<"fields">>) # {}
<1>1. IsSeq(ValuesAt(Params, <<"fields", t>>))
  <2>1. CASE ValuesAt(Params, <<"fields", t>>) = <<>>
    <3>1. <<>> \in Seq({})
      OBVIOUS
    <3> QED
      BY <2>1, <3>1, SequenceOf
  <2>2. CASE ValuesAt(Params, <<"fields", t>>) # <<>>
    <3>1. IsValues(<<"fields", t>>, ValuesAt(Params, <<"fields", t>>))
      BY <2>2, ValuesAsWritten
    <3>2. <<"fields", t>>[1] = "fields"
      BY PairOf
    <3> QED
      BY <3>1, <3>2 DEF IsValues, IsSeq
  <2> QED
    BY <2>1, <2>2
<1>2. ASSUME IsListed(Params, t)
      PROVE  DOMAIN Under(Params, <<"fields">>) # {}
  <2>1. IsQuery(Params)
    BY ParsedRequest DEF Params
  <2> QED
    BY <1>2, <2>1, ListedIsUnder
<1> QED
  BY <1>1, <1>2

\* The names selected are the id, the fields and the keys.
LEMMA NamesAre ==
    ASSUME request \in Requests, NEW t \in Types
    PROVE  LET names == Names(Params, t)
               own == ValuesAt(Params, <<"fields", t>>) IN
           /\ IsSeq(names) /\ Len(names) > 0 /\ names[1] = "id" /\ Keys(t) \subseteq Range(names)
           /\ Range(names) \subseteq ColumnsOf(t) \cup Range(own)
           /\ ~IsListed(Params, t) => DOMAIN Attributes[t] \subseteq Range(names)
           /\ IsListed(Params, t) /\ PathOf(First(Under(Params, <<"fields">>))) = <<"fields", t>>
                => Range(own) \subseteq Range(names)
           /\ IsListed(Params, t) /\ PathOf(First(Under(Params, <<"fields">>))) # <<"fields", t>>
                => Range(names) \subseteq {"id"} \cup Keys(t)
<1> DEFINE own == ValuesAt(Params, <<"fields", t>>)
           fields == IF ~IsListed(Params, t) THEN SetToSeq(DOMAIN Attributes[t])
                     ELSE IF PathOf(First(Under(Params, <<"fields">>))) = <<"fields", t>>
                          THEN own ELSE <<>>
           id == <<"id">>
           keys == SetToSeq(Keys(t))
           front == id \o fields
<1>1. Names(Params, t) = front \o keys
  BY DEF Names
<1>2. IsSeq(own) /\ IsSeq(<<>>) /\ Range(<<>>) = {}
  BY FieldsAreListed, NothingIn
<1>3. IsFiniteSet(DOMAIN Attributes[t]) /\ IsFiniteSet(Keys(t))
  <2>1. IsFiniteSet(ColumnsOf(t)) /\ DOMAIN Attributes[t] \in SUBSET ColumnsOf(t) /\ Keys(t) \in SUBSET ColumnsOf(t)
    BY TypesAssumption DEF ColumnsOf
  <2> QED
    BY <2>1, FS_Subset
<1>4. IsSeq(id) /\ Range(id) = {"id"} /\ Len(id) = 1 /\ id[1] = "id"
  <2>1. id \in Seq({"id"}) /\ Len(id) = 1 /\ id[1] = "id" /\ DOMAIN id = {1}
    OBVIOUS
  <2> HIDE DEF id
  <2>2. IsSeq(id)
    BY <2>1, SequenceOf
  <2> QED
    BY <2>1, <2>2 DEF Range
<1>5. SetToSeq(DOMAIN Attributes[t]) \in Seq(DOMAIN Attributes[t])
      /\ Range(SetToSeq(DOMAIN Attributes[t])) = DOMAIN Attributes[t]
  BY <1>3, SetToSeqOfFinite
<1>6. keys \in Seq(Keys(t)) /\ Range(keys) = Keys(t)
  BY <1>3, SetToSeqOfFinite
<1>7. IsSeq(SetToSeq(DOMAIN Attributes[t])) /\ IsSeq(keys)
  BY <1>5, <1>6, SequenceOf
<1>8. /\ IsSeq(fields) /\ Range(fields) \subseteq DOMAIN Attributes[t] \cup Range(own)
      /\ ~IsListed(Params, t) => DOMAIN Attributes[t] \subseteq Range(fields)
      /\ IsListed(Params, t) /\ PathOf(First(Under(Params, <<"fields">>))) = <<"fields", t>>
           => Range(own) \subseteq Range(fields)
      /\ IsListed(Params, t) /\ PathOf(First(Under(Params, <<"fields">>))) # <<"fields", t>>
           => Range(fields) = {}
  <2> HIDE DEF own
  <2>1. CASE ~IsListed(Params, t)
    BY <2>1, <1>5, <1>7
  <2>2. CASE IsListed(Params, t)
    BY <2>2, <1>2
  <2> QED
    BY <2>1, <2>2
<1> HIDE DEF id, own, fields, keys
<1>9. /\ IsSeq(front) /\ Range(front) = {"id"} \cup Range(fields)
      /\ Len(front) > 0 /\ front[1] = "id" /\ Len(front) \in Nat
  <2>1. /\ IsSeq(id \o fields) /\ Range(id \o fields) = Range(id) \cup Range(fields)
        /\ Len(id \o fields) = Len(id) + Len(fields) /\ Len(id) \in Nat /\ Len(fields) \in Nat
        /\ \A k \in 1..Len(id) : (id \o fields)[k] = id[k]
    BY <1>4, <1>8, Together
  <2> QED
    BY <1>4, <2>1
<1> HIDE DEF front
<1>10. /\ IsSeq(front \o keys) /\ Range(front \o keys) = {"id"} \cup Range(fields) \cup Keys(t)
       /\ Len(front \o keys) > 0 /\ (front \o keys)[1] = "id"
  <2>1. /\ IsSeq(front \o keys) /\ Range(front \o keys) = Range(front) \cup Range(keys)
        /\ Len(front \o keys) = Len(front) + Len(keys) /\ Len(keys) \in Nat
        /\ \A k \in 1..Len(front) : (front \o keys)[k] = front[k]
    BY <1>7, <1>9, Together
  <2> QED
    BY <1>6, <1>9, <2>1
<1>11. /\ Range(front \o keys) \subseteq ColumnsOf(t) \cup Range(own)
       /\ Keys(t) \subseteq Range(front \o keys)
  BY <1>8, <1>10 DEF ColumnsOf
<1> QED
  BY <1>1, <1>8, <1>10, <1>11 DEF own

\* The columns of an instance: its keys, and the attributes asked for.
LEMMA ColumnsAre ==
    ASSUME request \in Requests, NEW t \in Types
    PROVE  /\ Keys(t) \subseteq ColumnsAt(t) /\ "id" \notin ColumnsAt(t)
           /\ \A a \in DOMAIN Attributes[t] :
                \/ a \in ColumnsAt(t)
                \/ IsListed(Params, t) /\ a \notin Range(ValuesAt(Params, <<"fields", t>>))
                \/ IsListed(Params, t) /\ PathOf(First(Under(Params, <<"fields">>))) # <<"fields", t>>
<1>1. DOMAIN Attributes[t] \subseteq ColumnsOf(t) \ {"id"} /\ Keys(t) \subseteq ColumnsOf(t) \ {"id"}
  BY TypesAssumption DEF ColumnsOf
<1>2. CASE DOMAIN Under(Params, <<"fields">>) = {}
  <2>1. ColumnsAt(t) = ColumnsOf(t) \ {"id"}
    BY <1>2 DEF ColumnsAt
  <2> QED
    BY <1>1, <2>1
<1>3. CASE DOMAIN Under(Params, <<"fields">>) # {}
  <2>1. ColumnsAt(t) = Range(Names(Params, t)) \ {"id"}
    BY <1>3 DEF ColumnsAt
  <2> HIDE DEF ColumnsAt
  <2> QED
    BY <1>1, <2>1, NamesAre
<1> QED
  BY <1>2, <1>3

\* Ids are missing when there is nothing to relate to, or nothing but a count.
LEMMA LinkIdsMissing ==
    ASSUME request \in Requests, NEW path, NEW u \in Types, NEW t \in Types,
           colls[Front(path)].type = t,
           IsAnswer(Front(path)), LinkKey(path, u) # None,
           ~(Finds(Front(path)) /\ RelationsOf(u, t) = {})
    PROVE  LinkIds(path, u) = {} <=>
             \/ colls[Front(path)].rows = {}
             \/ CountStays(Front(path)) /\ LinkKey(path, u) = "id"
<1> DEFINE base == colls[Front(path)]
           key == KeyOf(t, u)
<1>1. LinkKey(path, u) = ForeignKey(t, u)
  BY DEF LinkKey
<1>2. CASE RelationsOf(u, t) # {}
  <2>1. LinkKey(path, u) # "id"
    BY <1>1, <1>2, KeyOfInclude
  <2>2. LinkIds(path, u) = {b.id : b \in base.rows}
    BY <1>1, <2>1 DEF LinkIds, RelatedIds
  <2> QED
    BY <2>1, <2>2
<1>3. CASE RelationsOf(u, t) = {}
  <2>1. LinkKey(path, u) = "id" /\ BelongsToKey(t, u) = key /\ RelationsOf(t, u) # {}
    BY <1>1, <1>3, KeyOfInclude
  <2>2. key # "id" /\ key \in Keys(t)
    BY <2>1, KeyOfRelation
  <2>3. LinkIds(path, u) = {Get(b, key) : b \in base.rows} \ {NullText}
    BY <1>1, <1>3, <2>1 DEF LinkIds, RelatedIds
  <2>4. ASSUME NEW b \in base.rows
        PROVE  Get(b, key) = NullText <=> CountStays(Front(path))
    <3>1. IsInstance(t, b) /\ base.ok
      BY DEF IsAnswer
    <3>2. CASE CountStays(Front(path))
      <4>1. DOMAIN b.cells = {}
        BY <3>2 DEF IsAnswer
      <4> QED
        BY <2>2, <3>2, <4>1 DEF Get
    <3>3. CASE ~CountStays(Front(path))
      <4>1. b \in AllAt(Front(path))
        BY <3>1, <3>3 DEF IsAnswer
      <4>2. DOMAIN b.cells = ColumnsAt(t)
        BY <4>1 DEF AllAt, InstanceAt
      <4>3. key \in DOMAIN b.cells
        BY <2>2, <4>2, ColumnsAre
      <4>4. Get(b, key) = b.cells[key] /\ b.cells[key] \in Cell
        BY <2>2, <3>1, <4>3 DEF Get, IsInstance
      <4> QED
        BY <3>3, <4>4 DEF Cell, Blank, NullText
    <3> QED
      BY <3>2, <3>3
  <2> QED
    BY <2>1, <2>3, <2>4
<1> QED
  BY <1>2, <1>3

\* The ids restrict a statement unless something is in their way.
LEMMA LinkedUnlessUnrestricted ==
    ASSUME request \in Requests, NEW path, path # <<>>, NEW u \in Types, NEW t \in Types,
           colls[Front(path)].type = t, IsAnswer(Front(path)), LinkKey(path, u) # None,
           ~(Finds(Front(path)) /\ RelationsOf(u, t) = {})
    PROVE  IsLinked(path, u) <=> ~Unrestricted(path, u)
<1>1. LinkKey(path, u) = ForeignKey(t, u)
  BY DEF LinkKey
<1>2. LeavesAt(Params, <<"filter">>) = {} <=> ~\E leaf \in Range(Params) : PathOf(leaf) = <<"filter">>
  BY DEF LeavesAt
<1>3. LinkIds(path, u) = {} <=>
             \/ colls[Front(path)].rows = {}
             \/ CountStays(Front(path)) /\ LinkKey(path, u) = "id"
  BY LinkIdsMissing
<1> QED
  BY <1>1, <1>2, <1>3 DEF IsLinked, Unrestricted

\* The rows the ids select are the linked ones.
LEMMA LinkedRows ==
    ASSUME NEW path, NEW u \in Types, NEW t \in Types, colls[Front(path)].type = t,
           \A b \in colls[Front(path)].rows : b.id \in Nat, LinkKey(path, u) # None,
           ~(Finds(Front(path)) /\ RelationsOf(u, t) = {}), NEW row \in Row(u)
    PROVE  row[LinkKey(path, u)] \in LinkIds(path, u) \ {Blank} <=>
             \E b \in colls[Front(path)].rows : Linked(t, u, b, row)
<1> DEFINE rows == colls[Front(path)].rows
<1>1. LinkKey(path, u) = ForeignKey(t, u)
  BY DEF LinkKey
<1>2. CASE RelationsOf(u, t) # {}
  <2>1. LinkKey(path, u) = KeyOf(u, t) /\ KeyOf(u, t) # "id"
    BY <1>1, <1>2, KeyOfInclude
  <2>2. LinkIds(path, u) = {b.id : b \in rows}
    BY <1>1, <2>1 DEF LinkIds, RelatedIds
  <2>3. \A b \in rows : b.id # Blank
    BY DEF Blank
  <2> QED
    BY <1>2, <2>1, <2>2, <2>3 DEF Linked
<1>3. CASE RelationsOf(u, t) = {}
  <2>1. LinkKey(path, u) = "id" /\ BelongsToKey(t, u) = KeyOf(t, u)
    BY <1>1, <1>3, KeyOfInclude
  <2>2. LinkIds(path, u) = {Get(b, KeyOf(t, u)) : b \in rows} \ {NullText}
    BY <1>1, <1>3, <2>1 DEF LinkIds, RelatedIds
  <2>3. row.id \notin {NullText, Blank}
    BY DEF Row, NullText, Blank
  <2> QED
    BY <1>3, <2>1, <2>2, <2>3 DEF Linked
<1> QED
  BY <1>2, <1>3

-----------------------------------------------------------------------------
(* What the invariant says of the collections, and the properties that follow. *)

\* A place below another one.
LEMMA PlaceBelow ==
    ASSUME CollsOK, NEW u, NEW path, IsPlace(path, u), path # <<>>
    PROVE  /\ Front(path) \in DOMAIN colls /\ IsAnswer(Front(path)) /\ u \in Types
           /\ colls[Front(path)].type \in Types /\ IsPlace(Front(path), colls[Front(path)].type)
           /\ LinkKey(path, u) # None /\ KindOf(u, LinkKey(path, u)) = "integer"
           /\ IsFiniteSet(LinkIds(path, u)) /\ LinkIds(path, u) \subseteq Cell
<1>1. path \in Seq(Nat) /\ u \in Types /\ LinkKey(path, u) # None
      /\ \A n \in 0..(Len(path) - 1) : SubSeq(path, 1, n) \in DOMAIN colls
  BY DEF IsPlace
<1>2. Front(path) \in DOMAIN colls
  <2>1. Len(path) - 1 \in 0..(Len(path) - 1)
    BY <1>1
  <2> QED
    BY <1>1, <2>1 DEF Front
<1>3. IsAnswer(Front(path))
  BY <1>2 DEF CollsOK
<1>4. colls[Front(path)].type \in Types /\ IsPlace(Front(path), colls[Front(path)].type)
  BY <1>3 DEF IsAnswer, IsPlace
<1>5. KindOf(u, LinkKey(path, u)) = "integer"
  BY <1>1, <1>4, KeyOfInclude DEF LinkKey
<1>6. IsFiniteSet(LinkIds(path, u)) /\ LinkIds(path, u) \subseteq Cell
  BY <1>1, <1>3, <1>4, LinkIdsAreCells DEF IsAnswer
<1> QED
  BY <1>1, <1>2, <1>3, <1>4, <1>5, <1>6

\* A resource that one resource includes because it belongs to it.
LEMMA ParentFound ==
    ASSUME CollsOK, NEW u, NEW path, IsPlace(path, u), path # <<>>
    PROVE  FindsParent(path, u) <=>
             Finds(Front(path)) /\ RelationsOf(u, colls[Front(path)].type) = {}
<1>1. CASE Finds(Front(path))
  <2>1. Front(path) = <<>>
    BY <1>1 DEF Finds
  <2>2. colls[Front(path)].type = request.type
    BY <2>1, PlaceBelow DEF IsPlace
  <2> QED
    BY <1>1, <2>2 DEF FindsParent
<1>2. CASE ~Finds(Front(path))
  BY <1>2 DEF FindsParent
<1> QED
  BY <1>1, <1>2

\* The rows that the conditions at a place select.
LEMMA SelectedAt ==
    ASSUME request \in Requests, CollsOK, NEW u, NEW path, IsPlace(path, u),
           NEW rows, rows \subseteq Row(u), NEW row \in rows
    PROVE  /\ row \in Matching(rows, TestsOf(path, u)) => Wanted(path, u, row)
           /\ \/ path # <<>> /\ FindsParent(path, u)
              \/ row \in Matching(rows, TestsOf(path, u)) <=>
                   /\ Wanted(path, u, row)
                   /\ \/ path = <<>> \/ Unrestricted(path, u)
                      \/ \E b \in colls[Front(path)].rows : Linked(colls[Front(path)].type, u, b, row)
<1>1. CASE path = <<>>
  <2>1. ~IsLinked(path, u) /\ u \in Types
    BY <1>1 DEF IsLinked, IsPlace
  <2> QED
    BY <1>1, <2>1, MatchingIsWanted
<1>2. CASE path # <<>>
  <2> DEFINE t == colls[Front(path)].type
  <2>1. /\ u \in Types /\ t \in Types /\ IsAnswer(Front(path)) /\ LinkKey(path, u) # None
        /\ KindOf(u, LinkKey(path, u)) = "integer"
        /\ IsFiniteSet(LinkIds(path, u)) /\ LinkIds(path, u) \subseteq Cell
    BY <1>2, PlaceBelow
  <2>2. row \in Matching(rows, TestsOf(path, u)) <=>
              /\ Wanted(path, u, row)
              /\ IsLinked(path, u) => row[LinkKey(path, u)] \in LinkIds(path, u) \ {Blank}
    BY <2>1, MatchingIsWanted
  <2>3. CASE FindsParent(path, u)
    BY <1>2, <2>2, <2>3
  <2>4. CASE ~FindsParent(path, u)
    <3>1. ~(Finds(Front(path)) /\ RelationsOf(u, t) = {})
      BY <1>2, <2>4, ParentFound
    <3>2. IsLinked(path, u) <=> ~Unrestricted(path, u)
      BY <1>2, <2>1, <3>1, LinkedUnlessUnrestricted
    <3>3. \A b \in colls[Front(path)].rows : b.id \in Nat
      BY <2>1 DEF IsAnswer
    <3>4. row[LinkKey(path, u)] \in LinkIds(path, u) \ {Blank} <=>
             \E b \in colls[Front(path)].rows : Linked(t, u, b, row)
      <4> HIDE DEF t
      <4> QED
        BY <2>1, <3>1, <3>3, LinkedRows DEF t
    <3> QED
      BY <1>2, <2>2, <3>2, <3>4
  <2> QED
    BY <2>3, <2>4
<1> QED
  BY <1>1, <1>2

\* A row of a collection is an instance of one that its statement saw.
LEMMA InstanceSeen ==
    ASSUME CollsOK, NEW path \in DOMAIN colls, ~CountStays(path), NEW r \in colls[path].rows
    PROVE  \E row \in Matching(colls[path].seen, TestsOf(path, colls[path].type)) :
             r = InstanceAt(colls[path].type, row) /\ r.id = row.id
                /\ row \in colls[path].seen /\ DOMAIN r.cells = ColumnsAt(colls[path].type)
<1>1. IsAnswer(path)
  BY DEF CollsOK
<1>2. r \in AllAt(path)
  BY <1>1 DEF IsAnswer
<1>3. PICK row \in Matching(colls[path].seen, TestsOf(path, colls[path].type)) :
          r = InstanceAt(colls[path].type, row)
  BY <1>2 DEF AllAt
<1> QED
  BY <1>3 DEF InstanceAt, Matching

\* The rows that passed the tests at a place are wanted there.
LEMMA FiltersReach ==
    ASSUME request \in Requests, CollsOK
    PROVE  FiltersReachTheirType
<1> SUFFICES ASSUME NEW path \in DOMAIN colls, NEW r \in colls[path].rows, NEW row \in colls[path].seen,
                    r.id = row.id, ~CountStays(path)
             PROVE  Wanted(path, colls[path].type, row)
  BY DEF FiltersReachTheirType
<1>1. IsPlace(path, colls[path].type) /\ IsTable(colls[path].type, colls[path].seen)
  BY DEF CollsOK, IsAnswer
<1>2. PICK own \in Matching(colls[path].seen, TestsOf(path, colls[path].type)) :
             own.id = r.id /\ own \in colls[path].seen
  BY InstanceSeen, Zenon
<1>3. own = row
  BY <1>1, <1>2 DEF IsTable
<1>4. colls[path].seen \subseteq Row(colls[path].type)
  BY <1>1 DEF IsTable
<1> QED
  BY <1>1, <1>2, <1>3, <1>4, SelectedAt

\* The attributes that are listed for a type, and looked at.
Listed(t) ==
    IF ~IsListed(Params, t) THEN DOMAIN Attributes[t]
    ELSE IF PathOf(First(Under(Params, <<"fields">>))) = <<"fields", t>>
         THEN Range(ValuesAt(Params, <<"fields", t>>)) ELSE {}

\* They are the attributes among the columns that the list has, if there is one.
LEMMA ColumnsListed ==
    ASSUME request \in Requests, NEW t \in Types, NEW a \in DOMAIN Attributes[t]
    PROVE  a \in Listed(t) <=>
             a \in ColumnsAt(t) /\ (IsListed(Params, t) => a \in Range(ValuesAt(Params, <<"fields", t>>)))
<1> DEFINE own == Range(ValuesAt(Params, <<"fields", t>>))
           first == PathOf(First(Under(Params, <<"fields">>))) = <<"fields", t>>
<1>1. \/ a \in ColumnsAt(t)
      \/ IsListed(Params, t) /\ a \notin own
      \/ IsListed(Params, t) /\ ~first
  BY ColumnsAre
<1>2. ASSUME IsListed(Params, t), ~first
      PROVE  a \notin ColumnsAt(t)
  <2>1. DOMAIN Under(Params, <<"fields">>) # {} /\ Range(Names(Params, t)) \subseteq {"id"} \cup Keys(t)
    BY <1>2, FieldsAreListed, NamesAre
  <2>2. a \notin {"id"} \cup Keys(t)
    BY TypesAssumption
  <2> QED
    BY <2>1, <2>2 DEF ColumnsAt
<1>3. Listed(t) = IF ~IsListed(Params, t) THEN DOMAIN Attributes[t] ELSE IF first THEN own ELSE {}
  BY DEF Listed
<1> HIDE DEF own, first
<1>4. a \in Listed(t) <=> a \in ColumnsAt(t) /\ (IsListed(Params, t) => a \in own)
  BY <1>1, <1>2, <1>3
<1> QED
  BY <1>4 DEF own

\* The columns selected are the attributes asked for.
LEMMA FieldsAsk ==
    ASSUME request \in Requests, CollsOK
    PROVE  FieldsAsAsked
<1> SUFFICES ASSUME NEW path \in DOMAIN colls, NEW r \in colls[path].rows, ~CountStays(path),
                    NEW t, t = colls[path].type
             PROVE  Shown(path, r) = DOMAIN Attributes[t] \cap Listed(t)
  BY DEF FieldsAsAsked, Listed
<1>1. t \in Types
  BY DEF CollsOK, IsAnswer, IsPlace
<1>2. DOMAIN r.cells = ColumnsAt(t)
  BY InstanceSeen, Zenon
<1>3. \A a \in DOMAIN Attributes[t] :
        a \in Listed(t) <=> a \in ColumnsAt(t) /\ (IsListed(Params, t) => a \in Range(ValuesAt(Params, <<"fields", t>>)))
  BY <1>1, ColumnsListed
<1>4. Shown(path, r) = {a \in DOMAIN Attributes[t] \cap DOMAIN r.cells :
        IsListed(Params, t) => a \in Range(ValuesAt(Params, <<"fields", t>>))}
  BY DEF Shown
<1> QED
  BY <1>2, <1>3, <1>4

\* A row is put to an instance if the models' relation links them.
LEMMA RelatedIsLinked ==
    ASSUME request \in Requests, CollsOK, NEW path \in DOMAIN colls, path # <<>>,
           colls[path].ok, ~CountStays(path), ~Misread(colls[Front(path)].type, colls[path].type),
           ~FindsParent(path, colls[path].type),
           NEW b \in colls[Front(path)].rows, NEW row \in Row(colls[path].type)
    PROVE  IsRelated(path, b, InstanceAt(colls[path].type, row))
             <=> Linked(colls[Front(path)].type, colls[path].type, b, row)
<1> DEFINE t == colls[Front(path)].type
           u == colls[path].type
           r == InstanceAt(u, row)
           k == BelongsToKey(t, u)
<1>1. IsPlace(path, u) /\ ColumnsAt(u) \subseteq ColumnsOf(u)
  BY DEF CollsOK, IsAnswer
<1>2. /\ t \in Types /\ u \in Types /\ ForeignKey(t, u) # None
      /\ ~(Finds(Front(path)) /\ RelationsOf(u, t) = {}) /\ b.id \in Nat
  <2>1. IsAnswer(Front(path)) /\ t \in Types /\ u \in Types /\ LinkKey(path, u) # None
    BY <1>1, PlaceBelow
  <2>2. ~(Finds(Front(path)) /\ RelationsOf(u, t) = {})
    BY <1>1, ParentFound
  <2> QED
    BY <2>1, <2>2 DEF LinkKey, IsAnswer
<1>3. /\ r.id = row.id /\ DOMAIN r.cells = ColumnsAt(u) /\ \A c \in ColumnsAt(u) : r.cells[c] = row[c]
      /\ row.id \in Nat \ {0} /\ \A c \in ColumnsOf(u) : row[c] \in Cell
  BY DEF InstanceAt, Row
<1>4. IsRelated(path, b, r) <=>
        IF Get(r, RelatingKey(path)) # NullText THEN Get(r, RelatingKey(path)) = b.id
        ELSE Get(b, k) # NullText /\ r.id = Get(b, k)
  BY DEF IsRelated
<1>5. RelatingKey(path) = IF ForeignKey(t, u) = "id" /\ ~Finds(Front(path)) THEN k ELSE ForeignKey(t, u)
  BY DEF RelatingKey
<1>6. ~Misread(t, u)
  OBVIOUS
<1> HIDE DEF t, u, r, k
<1>7. CASE RelationsOf(u, t) # {}
  <2>1. RelatingKey(path) = KeyOf(u, t)
    BY <1>2, <1>5, <1>7, KeyOfInclude
  <2>2. KeyOf(u, t) \in Keys(u) /\ KeyOf(u, t) # "id" /\ KeyOf(u, t) \in ColumnsOf(u)
    BY <1>7, KeyOfRelation
  <2>3. KeyOf(u, t) \in ColumnsAt(u)
    BY <1>2, <2>2, ColumnsAre
  <2>4. Get(r, KeyOf(u, t)) = row[KeyOf(u, t)] /\ row[KeyOf(u, t)] \in Cell
    BY <1>3, <2>2, <2>3 DEF Get
  <2>5. Get(r, KeyOf(u, t)) # NullText
    BY <2>4 DEF Cell, Blank, NullText
  <2> QED
    BY <1>4, <1>7, <2>1, <2>4, <2>5 DEF Linked, t, u, r
<1>8. CASE RelationsOf(u, t) = {}
  <2>1. ForeignKey(t, u) = "id" /\ k = KeyOf(t, u) /\ RelationsOf(t, u) # {} /\ ~Finds(Front(path))
    BY <1>2, <1>8, KeyOfInclude DEF k
  <2>2. RelatingKey(path) = k
    BY <1>5, <2>1
  <2>3. k \notin ColumnsOf(u) /\ k # "id"
    BY <1>6, <1>8, <2>1, KeyOfRelation DEF Misread, k
  <2>4. Get(r, k) = NullText
    BY <1>1, <1>3, <2>3 DEF Get, u
  <2>5. row.id # NullText
    BY <1>3 DEF NullText
  <2>6. IsRelated(path, b, r) <=> Get(b, k) # NullText /\ row.id = Get(b, k)
    BY <1>3, <1>4, <2>2, <2>4
  <2>7. Linked(t, u, b, row) <=> Get(b, k) = row.id
    BY <1>8, <2>1 DEF Linked
  <2> QED
    BY <2>5, <2>6, <2>7 DEF t, u, r
<1> QED
  BY <1>7, <1>8

\* The rows that passed the test of the related ids are related to one of them.
LEMMA LinkageIsFull ==
    ASSUME request \in Requests, CollsOK
    PROVE  FullLinkage
<1> SUFFICES ASSUME NEW path \in DOMAIN colls, path # <<>>,
                    ~Unrestricted(path, colls[path].type), ~CountStays(path),
                    ~Misread(colls[Front(path)].type, colls[path].type),
                    NEW r \in Included(path)
             PROVE  \E b \in colls[Front(path)].rows : r \in PutTo(path, b)
  BY DEF FullLinkage
<1> DEFINE t == colls[Front(path)].type
           u == colls[path].type
<1>1. CASE Finds(Front(path))
  <2>1. Front(path) = <<>>
    BY <1>1 DEF Finds
  <2> QED
    BY <1>1, <2>1 DEF Included
<1>2. CASE ~Finds(Front(path))
  <2>1. r \in colls[path].rows
    BY <1>2 DEF Included
  <2>2. ~FindsParent(path, u)
    BY <1>2 DEF FindsParent
  <2>3. IsAnswer(path) /\ IsPlace(path, u)
    BY DEF CollsOK, IsAnswer
  <2>4. colls[path].ok
    BY <2>1, <2>3 DEF IsAnswer
  <2>5. PICK row \in Matching(colls[path].seen, TestsOf(path, u)) :
          r = InstanceAt(u, row) /\ row \in colls[path].seen
    BY <2>1, InstanceSeen, Zenon
  <2>6. colls[path].seen \subseteq Row(u) /\ row \in Row(u)
    BY <2>3, <2>5 DEF IsAnswer, IsTable
  <2>7. PICK b \in colls[Front(path)].rows : Linked(t, u, b, row)
    <3> HIDE DEF t, u
    <3>1. row \in Matching(colls[path].seen, TestsOf(path, u)) <=>
                /\ Wanted(path, u, row)
                /\ \/ path = <<>> \/ Unrestricted(path, u)
                   \/ \E b \in colls[Front(path)].rows : Linked(colls[Front(path)].type, u, b, row)
      BY <2>2, <2>3, <2>5, <2>6, SelectedAt
    <3>2. \E b \in colls[Front(path)].rows : Linked(colls[Front(path)].type, u, b, row)
      BY <3>1 DEF u
    <3> QED
      BY <3>2 DEF t
  <2>8. IsRelated(path, b, r)
    BY <2>2, <2>4, <2>5, <2>6, <2>7, RelatedIsLinked
  <2> QED
    BY <2>1, <2>8 DEF PutTo
<1> QED
  BY <1>1, <1>2

InstancesOf(t, rows) == {InstanceAt(t, row) : row \in rows}
IdsOf(rows) == {row.id : row \in rows}

\* Instances, rows and ids are as many.
LEMMA AsManyIds ==
    ASSUME NEW t, NEW rows, IsFiniteSet(rows), \A a, b \in rows : a.id = b.id => a = b
    PROVE  /\ IsFiniteSet(InstancesOf(t, rows)) /\ Cardinality(InstancesOf(t, rows)) = Cardinality(rows)
           /\ IsFiniteSet(IdsOf(rows)) /\ Cardinality(IdsOf(rows)) = Cardinality(rows)
<1> DEFINE f == [row \in rows |-> InstanceAt(t, row)]
           g == [row \in rows |-> row.id]
           all == InstancesOf(t, rows)
           ids == IdsOf(rows)
<1>1. f \in [rows -> all] /\ Range(f) = all /\ IsInjective(f)
  <2>1. f \in [rows -> all] /\ Range(f) = all
    BY DEF Range, InstancesOf
  <2>2. \A a, b \in rows : f[a] = f[b] => a.id = b.id
    BY DEF InstanceAt
  <2>3. DOMAIN f = rows
    OBVIOUS
  <2> HIDE DEF f
  <2> QED
    BY <2>1, <2>2, <2>3 DEF IsInjective
<1>2. g \in [rows -> ids] /\ Range(g) = ids /\ IsInjective(g)
  <2>1. g \in [rows -> ids] /\ Range(g) = ids
    BY DEF Range, IdsOf
  <2>2. \A a, b \in rows : g[a] = g[b] => a.id = b.id
    OBVIOUS
  <2>3. DOMAIN g = rows
    OBVIOUS
  <2> HIDE DEF g
  <2> QED
    BY <2>1, <2>2, <2>3 DEF IsInjective
<1> HIDE DEF f, g, all, ids
<1>3. IsFiniteSet(all) /\ Cardinality(all) = Cardinality(rows)
  BY <1>1, AsManyImages
<1>4. IsFiniteSet(ids) /\ Cardinality(ids) = Cardinality(rows)
  BY <1>2, AsManyImages
<1> QED
  BY <1>3, <1>4 DEF all, ids

\* As many as all there are at a place.
LEMMA AsManyAt ==
    ASSUME CollsOK, NEW path \in DOMAIN colls
    PROVE  LET rows == Matching(colls[path].seen, TestsOf(path, colls[path].type)) IN
           /\ IsFiniteSet(AllAt(path)) /\ Cardinality(AllAt(path)) = Cardinality(rows)
           /\ Cardinality(AllAt(path)) = Cardinality(IdsOf(rows))
<1> DEFINE u == colls[path].type
           rows == Matching(colls[path].seen, TestsOf(path, u))
<1>1. IsFiniteSet(colls[path].seen) /\ \A a, b \in colls[path].seen : a.id = b.id => a = b
  BY DEF CollsOK, IsAnswer, IsTable
<1>2. rows \in SUBSET colls[path].seen
  BY DEF Matching
<1>3. IsFiniteSet(rows) /\ \A a, b \in rows : a.id = b.id => a = b
  BY <1>1, <1>2, FS_Subset
<1>4. AllAt(path) = InstancesOf(u, rows)
  BY DEF AllAt, InstancesOf
<1> HIDE DEF u, rows
<1> QED
  BY <1>3, <1>4, AsManyIds DEF u, rows

\* The rows related are those linked: the key read is the one the relation names.
LEMMA IncludesAreLinked ==
    ASSUME request \in Requests, CollsOK
    PROVE  IncludesAreTheLinked
<1> SUFFICES ASSUME NEW path \in DOMAIN colls, path # <<>>, colls[path].ok, ~IsPaged,
                    ~FindsParent(path, colls[path].type), ~CountStays(path),
                    ~Misread(colls[Front(path)].type, colls[path].type),
                    NEW b \in colls[Front(path)].rows, NEW row \in colls[path].seen
             PROVE  (\E r \in PutTo(path, b) : r.id = row.id)
                      <=> Linked(colls[Front(path)].type, colls[path].type, b, row)
                             /\ Wanted(path, colls[path].type, row)
  BY DEF IncludesAreTheLinked
<1> DEFINE t == colls[Front(path)].type
           u == colls[path].type
           rows == Matching(colls[path].seen, TestsOf(path, u))
<1>1. IsAnswer(path) /\ IsPlace(path, u) /\ IsTable(u, colls[path].seen)
  BY DEF CollsOK, IsAnswer
<1>2. colls[path].seen \subseteq Row(u) /\ row \in Row(u)
  BY <1>1 DEF IsTable
<1>3. ASSUME NEW r \in PutTo(path, b), r.id = row.id
      PROVE  Linked(t, u, b, row) /\ Wanted(path, u, row)
  <2>1. r \in colls[path].rows /\ IsRelated(path, b, r)
    BY DEF PutTo
  <2>2. PICK own \in rows : r = InstanceAt(u, own) /\ own.id = r.id /\ own \in colls[path].seen
    BY <2>1, InstanceSeen, Zenon
  <2>3. own = row
    BY <1>1, <1>3, <2>2 DEF IsTable
  <2>4. Wanted(path, u, row)
    BY <1>1, <1>2, <2>2, <2>3, SelectedAt
  <2>5. Linked(t, u, b, row)
    BY <1>2, <2>1, <2>2, <2>3, RelatedIsLinked
  <2> QED
    BY <2>4, <2>5
<1>4. ASSUME Linked(t, u, b, row), Wanted(path, u, row)
      PROVE  \E r \in PutTo(path, b) : r.id = row.id
  <2>1. row \in rows
    BY <1>1, <1>2, <1>4, SelectedAt
  <2>2. InstanceAt(u, row) \in AllAt(path)
    BY <2>1 DEF AllAt
  <2>3. colls[path].rows = AllAt(path)
    <3>1. PageOf(Params) = <<>>
      BY DEF IsPaged
    <3>2. Cardinality(colls[path].rows) = Cardinality(AllAt(path)) /\ colls[path].rows \in SUBSET AllAt(path)
      BY <1>1, <3>1 DEF IsAnswer, Finds, PageSize
    <3>3. IsFiniteSet(AllAt(path))
      BY AsManyAt
    <3> HIDE DEF u
    <3> QED
      BY <3>2, <3>3, FS_Subset
  <2>4. InstanceAt(u, row).id = row.id
    BY DEF InstanceAt
  <2>5. IsRelated(path, b, InstanceAt(u, row))
    BY <1>2, <1>4, RelatedIsLinked
  <2> QED
    BY <2>2, <2>3, <2>4, <2>5 DEF PutTo
<1> QED
  BY <1>3, <1>4

\* The rows of a stat are those that passed the tests at its place.
LEMMA StatsRange ==
    ASSUME request \in Requests, CollsOK, StatsOK
    PROVE  StatsRangeOverFiltered
<1>1. ASSUME NEW k \in DOMAIN stats, stats[k].ok, Summarises(stats[k]),
             ~(stats[k].path # <<>> /\ FindsParent(stats[k].path, stats[k].of))
      PROVE  stats[k].over = {row.id : row \in {x \in stats[k].seen :
                  /\ Wanted(stats[k].path, stats[k].of, x)
                  /\ \/ stats[k].path = <<>> \/ Unrestricted(stats[k].path, stats[k].of)
                     \/ \E b \in colls[Front(stats[k].path)].rows :
                          Linked(colls[Front(stats[k].path)].type, stats[k].of, b, x)}}
  <2> DEFINE path == stats[k].path
             u == stats[k].of
             seen == stats[k].seen
             means(x) == /\ Wanted(path, u, x)
                         /\ \/ path = <<>> \/ Unrestricted(path, u)
                            \/ \E b \in colls[Front(path)].rows : Linked(colls[Front(path)].type, u, b, x)
  <2>1. IsStat(stats[k])
    BY DEF StatsOK
  <2>2. IsPlace(path, u) /\ seen \subseteq Row(u)
        /\ stats[k].over = {row.id : row \in Matching(seen, TestsOf(path, u))}
    BY <1>1, <2>1 DEF IsStat, IsTable
  <2>3. \A x \in seen : x \in Matching(seen, TestsOf(path, u)) <=> means(x)
    <3> HIDE DEF path, u, seen
    <3>1. ~(path # <<>> /\ FindsParent(path, u))
      BY <1>1 DEF path, u
    <3> QED
      BY <2>2, <3>1, SelectedAt
  <2>4. Matching(seen, TestsOf(path, u)) = {x \in seen : means(x)}
    BY <2>3 DEF Matching
  <2> QED
    BY <2>2, <2>4
<1>2. ASSUME NEW k \in DOMAIN stats, stats[k].ok, Summarises(stats[k]),
             stats[k].path \in DOMAIN colls, ~Finds(stats[k].path),
             colls[stats[k].path].ok, colls[stats[k].path].seen = stats[k].seen
      PROVE  Cardinality(colls[stats[k].path].rows) =
               PageSize(Cardinality(stats[k].over), PageOf(Params))
  <2> DEFINE path == stats[k].path
  <2>1. colls[path].type = stats[k].of
    BY <1>2 DEF StatsOK
  <2>2. ~CountStays(path)
    BY <1>2 DEF CountStays, StatsOK
  <2>3. Cardinality(colls[path].rows) = PageSize(Cardinality(AllAt(path)), PageOf(Params))
    BY <1>2, <2>1, <2>2 DEF CollsOK, IsAnswer
  <2>4. stats[k].over = IdsOf(Matching(colls[path].seen, TestsOf(path, colls[path].type)))
    <3>1. IsStat(stats[k])
      BY DEF StatsOK
    <3> QED
      BY <1>2, <2>1, <3>1 DEF IsStat, IdsOf
  <2>5. Cardinality(AllAt(path)) = Cardinality(stats[k].over)
    BY <1>2, <2>4, AsManyAt
  <2> QED
    BY <2>3, <2>5
<1>3. ASSUME NEW k \in DOMAIN stats, pc = "done", stats[k].path = <<>>,
             \A path \in DOMAIN colls \ {<<>>} : stats[k].type \notin {None, colls[path].type}
      PROVE  Reported(stats[k].type, stats[k].attribute).path = <<>>
  <2> DEFINE same == {j \in DOMAIN stats :
                        stats[j].type = stats[k].type /\ stats[j].attribute = stats[k].attribute}
  <2>1. same \subseteq 0..Len(stats) /\ Len(stats) \in Nat /\ k \in same /\ same \subseteq DOMAIN stats
    BY DEF StatsOK, IsSeq
  <2>2. Max(same) \in same
    <3> HIDE DEF same
    <3> QED
      BY <2>1, GreatestOfNaturals
  <2>3. PICK m \in same : Reported(stats[k].type, stats[k].attribute) = stats[m]
    BY <2>2 DEF Reported
  <2>4. IsStat(stats[m]) /\ stats[m].path \in DOMAIN colls /\ colls[stats[m].path].type = stats[m].of
    BY <1>3, <2>1, <2>3 DEF StatsOK
  <2>5. stats[m].type \in {None, stats[m].of}
    BY <2>4 DEF IsStat, IsStatValue
  <2> QED
    BY <1>3, <2>3, <2>4, <2>5
<1> QED
  BY <1>1, <1>2, <1>3 DEF StatsRangeOverFiltered

\* The invariant has the types,
LEMMA TypesFollow ==
    ASSUME IInv
    PROVE  TypeOK
<1>1. DOMAIN tables = Types /\ \A t \in Types : IsTable(t, tables[t])
  BY DEF IInv, WorldOK
<1>2. /\ pc \in {"filters", "stats", "rows", "include", "done", "crashed"}
      /\ pc \in {"filters", "stats", "rows", "include"} => stack # <<>>
      /\ writes \in 0..MaxWrites /\ failures \in 0..MaxFailures
  BY DEF IInv, WorldOK, StackOK, Working
<1>3. \A k \in DOMAIN stack : stack[k].type \in Types /\ Len(stack[k].path) = k - 1
  BY DEF IInv, StackOK, IsPlace
<1>4. scope.query \in B!Query
  BY DEF IInv, QueryOK
<1>5. \A path \in DOMAIN colls : IsCollection(colls[path])
  BY DEF IInv, CollsOK, IsAnswer, IsPlace, IsTable, IsCollection
<1>6. \A k \in DOMAIN stats : IsStatValue(stats[k])
  BY DEF IInv, StatsOK, IsStat
<1> QED
  BY <1>1, <1>2, <1>3, <1>4, <1>5, <1>6 DEF TypeOK

\* the reasons,
LEMMA RefusalsFollow ==
    ASSUME IInv
    PROVE  RefusedForAReason
<1>1. \A path \in DOMAIN colls : colls[path].ok \/ MayBeRefused(path, colls[path].type)
  BY DEF IInv, CollsOK, IsAnswer
<1> QED
  BY <1>1 DEF IInv, CrashOK, RefusedForAReason

\* and all that the properties say.
LEMMA PropertiesFollow ==
    ASSUME IInv
    PROVE  /\ TypeOK /\ FullLinkage /\ IncludesAreTheLinked /\ FiltersReachTheirType
           /\ StatsRangeOverFiltered /\ FieldsAsAsked /\ RefusedForAReason
<1>1. request \in Requests /\ CollsOK /\ StatsOK
  BY DEF IInv, WorldOK
<1> QED
  BY <1>1, TypesFollow, LinkageIsFull, IncludesAreLinked, FiltersReach, StatsRange, FieldsAsk,
     RefusalsFollow

-----------------------------------------------------------------------------
(* The query_t of a call, and the statements that are made of it. *)

\* A query_t with the fields it has.
IsScope(s) ==
    s = [query |-> s.query, todo |-> s.todo, tests |-> s.tests, page |-> s.page,
         asked |-> s.asked, stat |-> s.stat]

\* A query_t whose parameters are those of its conditions.
Bindable(q) ==
    /\ q = [params |-> q.params, select |-> q.select, where |-> q.where, having |-> q.having,
            order |-> q.order, clauses |-> q.clauses, owned |-> q.owned]
    /\ q.where \in Seq(B!Condition) /\ q.params \in Seq(Int) /\ q.having = <<>>
    /\ B!Marks(q) = 1..Len(q.params)

Grown(q, c, given) == [q EXCEPT !.where = Append(@, c), !.params = @ \o given]

\* A condition more, with the parameters that its marks are of.
LEMMA ConditionAdded ==
    ASSUME NEW q, Bindable(q), NEW given \in Seq(Int), NEW c \in B!Condition,
           B!RangeOf(c.marks) = Len(q.params) + 1..Len(q.params) + Len(given),
           NEW r, r = Grown(q, c, given)
    PROVE  /\ Bindable(r)
           /\ B!Conditions(r) = B!Conditions(q) \cup {c}
           /\ r.select = q.select /\ r.order = q.order /\ r.clauses = q.clauses /\ r.owned = q.owned
<1>1. q.where \in Seq(B!Condition) /\ q.params \in Seq(Int) /\ q.having = <<>> /\ B!Marks(q) = 1..Len(q.params)
  BY DEF Bindable
<1>2. /\ r.where = Append(q.where, c) /\ r.params = q.params \o given /\ r.having = q.having
      /\ r.select = q.select /\ r.order = q.order /\ r.clauses = q.clauses /\ r.owned = q.owned
      /\ r = [params |-> r.params, select |-> r.select, where |-> r.where, having |-> r.having,
              order |-> r.order, clauses |-> r.clauses, owned |-> r.owned]
  BY DEF Grown, Bindable
<1>3. r.where \in Seq(B!Condition) /\ r.params \in Seq(Int)
  BY <1>1, <1>2
<1>4. \A w \in Seq(B!Condition) : w \o <<>> = w
  OBVIOUS
<1>5. B!Conditions(q) = B!RangeOf(q.where) /\ B!Conditions(r) = B!RangeOf(Append(q.where, c))
  <2>1. Append(q.where, c) \in Seq(B!Condition)
    BY <1>1
  <2> QED
    BY <1>1, <1>2, <1>4, <2>1 DEF B!Conditions
<1>6. B!RangeOf(Append(q.where, c)) = B!RangeOf(q.where) \cup {c}
  <2> DEFINE w == q.where
             n == Len(w)
  <2>1. /\ DOMAIN Append(w, c) = 1..n + 1 /\ DOMAIN w = 1..n /\ n \in Nat
        /\ Append(w, c)[n + 1] = c /\ \A k \in 1..n : Append(w, c)[k] = w[k]
    BY <1>1
  <2> HIDE DEF w, n
  <2>2. B!RangeOf(Append(w, c)) \subseteq B!RangeOf(w) \cup {c}
    BY <2>1 DEF B!RangeOf
  <2>3. B!RangeOf(w) \cup {c} \subseteq B!RangeOf(Append(w, c))
    BY <2>1 DEF B!RangeOf
  <2> QED
    BY <2>2, <2>3 DEF w
<1>7. B!Marks(r) = B!Marks(q) \cup B!RangeOf(c.marks)
  BY <1>5, <1>6 DEF B!Marks
<1>8. Len(r.params) = Len(q.params) + Len(given) /\ Len(q.params) \in Nat /\ Len(given) \in Nat
  BY <1>1, <1>2
<1>9. B!Marks(r) = 1..Len(r.params)
  <2>1. \A m, n \in Nat : (1..m) \cup (m + 1..m + n) = 1..m + n
    OBVIOUS
  <2>2. B!Marks(r) = (1..Len(q.params)) \cup (Len(q.params) + 1..Len(q.params) + Len(given))
    BY <1>1, <1>7
  <2> QED
    BY <1>8, <2>1, <2>2
<1> QED
  BY <1>1, <1>2, <1>3, <1>5, <1>6, <1>9 DEF Bindable

\* A callback of a filter adds a condition, an empty one if there are no values.
LEMMA TestAdded ==
    ASSUME NEW s, Bindable(s.query), NEW test, test.values \in Seq(Int), IsScope(s),
           NEW q, q = WithTest(s, test).query
    PROVE  /\ Bindable(q)
           /\ \A c \in B!Conditions(s.query) : c \in B!Conditions(q)
           /\ \A c \in B!Conditions(q) : c \in B!Conditions(s.query) \/ (c.empty <=> test.values = <<>>)
           /\ test.values = <<>> => \E c \in B!Conditions(q) : c.empty
           /\ q.select = s.query.select /\ q.order = s.query.order
           /\ q.clauses = s.query.clauses /\ q.owned = s.query.owned
<1> DEFINE given == test.values
           p == s.query
           n == Len(p.params)
<1>1. n \in Nat /\ Len(given) \in Nat /\ DOMAIN given = 1..Len(given)
      /\ p.where \in Seq(B!Condition) /\ p.params \in Seq(Int)
      /\ DOMAIN p = {"params", "select", "where", "having", "order", "clauses", "owned"}
  BY DEF Bindable
<1>4. Bindable(p) /\ given \in Seq(Int)
  OBVIOUS
<1>2. CASE Len(given) = 1
  <2> DEFINE c == B!Bound(p, given)
  <2>1. q = Grown(p, c, given)
    BY <1>2 DEF WithTest, B!WithWhere, Grown, IsScope
  <2>2. c.marks = [k \in 1..1 |-> n + 1] /\ c.empty = FALSE /\ c.given = given
        /\ c = [marks |-> c.marks, given |-> c.given, empty |-> c.empty]
    BY <1>1, <1>2 DEF B!Bound
  <2>3. c.marks \in Seq(Nat \ {0})
    BY <1>1, <2>2
  <2>4. c \in B!Condition
    BY <2>2, <2>3 DEF B!Condition
  <2>5. B!RangeOf(c.marks) = n + 1..n + Len(given)
    <3>1. B!RangeOf(c.marks) = {n + 1}
      BY <2>2 DEF B!RangeOf
    <3>2. n + 1..n + Len(given) = {n + 1}
      BY <1>1, <1>2
    <3> QED
      BY <3>1, <3>2
  <2>6. given # <<>>
    <3>1. Len(given) # 0
      BY <1>2
    <3> HIDE DEF given
    <3> QED
      BY <1>4, <3>1, NotEmpty
  <2> HIDE DEF c
  <2>7. /\ Bindable(q) /\ B!Conditions(q) = B!Conditions(p) \cup {c}
        /\ q.select = p.select /\ q.order = p.order /\ q.clauses = p.clauses /\ q.owned = p.owned
    <3> HIDE DEF p, given
    <3> QED
      BY <1>4, <2>1, <2>4, <2>5, ConditionAdded
  <2> QED
    BY <1>1, <2>2, <2>6, <2>7
<1>3. CASE Len(given) # 1
  <2> DEFINE c == [marks |-> [k \in DOMAIN given |-> n + k], given |-> given, empty |-> given = <<>>]
  <2>1. q = Grown(p, c, given)
    BY <1>3 DEF WithTest, B!WithWhereIn, Grown, IsScope
  <2>2. c.marks = [k \in 1..Len(given) |-> n + k] /\ (c.empty <=> given = <<>>) /\ c.empty \in BOOLEAN
        /\ c.given = given /\ c = [marks |-> c.marks, given |-> c.given, empty |-> c.empty]
    BY <1>1
  <2>3. c.marks \in Seq(Nat \ {0})
    BY <1>1, <2>2
  <2> HIDE DEF c
  <2>4. c \in B!Condition
    BY <2>2, <2>3 DEF B!Condition
  <2>5. B!RangeOf(c.marks) = n + 1..n + Len(given)
    <3>1. B!RangeOf(c.marks) = {n + k : k \in 1..Len(given)}
      BY <2>2 DEF B!RangeOf
    <3>2. \A m, l \in Nat : {m + k : k \in 1..l} = m + 1..m + l
      <4>1. \A m, l \in Nat : \A i \in m + 1..m + l : i - m \in 1..l /\ i = m + (i - m)
        OBVIOUS
      <4> QED
        BY <4>1
    <3> QED
      BY <1>1, <3>1, <3>2
  <2>6. /\ Bindable(q) /\ B!Conditions(q) = B!Conditions(p) \cup {c}
        /\ q.select = p.select /\ q.order = p.order /\ q.clauses = p.clauses /\ q.owned = p.owned
    <3> HIDE DEF p, given
    <3> QED
      BY <1>4, <2>1, <2>4, <2>5, ConditionAdded
  <2> QED
    BY <1>1, <2>2, <2>6
<1> QED
  BY <1>2, <1>3

\* The test of find, and what a statement sorts by and selects.
IdTest == [column |-> "id", op |-> "eq", values |-> <<request.id>>]
SortsAsked(q, t) == {<<item.column, item.direction>> : item \in Sorts(q, t)}
NamesAsked(t) == IF DOMAIN Under(Params, <<"fields">>) = {} THEN <<>> ELSE Names(Params, t)

\* Sorts, pages and fields leave the conditions alone.
LEMMA FinishedScope ==
    ASSUME NEW s, IsScope(s), Bindable(s.query), s.page = <<>>, s.query.order = <<>>,
           s.query.clauses = {},
           NEW q, NEW above, NEW inner, IsCopy(q, above, inner), IsQuery(Params), NEW t, NEW r, r = Finished(s, q, t)
    PROVE  /\ IsScope(r) /\ Bindable(r.query) /\ B!Conditions(r.query) = B!Conditions(s.query)
           /\ r.tests = s.tests /\ r.page = PageOf(Params)
           /\ r.query.select = IF DOMAIN Under(Params, <<"fields">>) = {} THEN s.query.select
                               ELSE s.query.select \o Names(Params, t)
           /\ r.query.order = <<>> \o SetToSeq(SortsAsked(q, t))
           /\ IsPaged \/ r.query.clauses = {}
<1> DEFINE s1 == WithSorts(s, q, t)
           s2 == WithPage(s1, Params)
           q0 == s.query
<1>1. r = WithFields(s2, Params, t)
  <2>1. WithPage(s1, q) = s2
    BY AskedAsWell
  <2>2. WithFields(s2, q, t) = WithFields(s2, Params, t)
    BY AskedAsWell
  <2> HIDE DEF s1, s2
  <2> QED
    BY <2>1, <2>2 DEF Finished, s1
<1> DEFINE order == <<>> \o SetToSeq(SortsAsked(q, t))
<1>2. q0 = [params |-> q0.params, select |-> q0.select, where |-> q0.where, having |-> q0.having,
            order |-> q0.order, clauses |-> q0.clauses, owned |-> q0.owned]
  BY DEF Bindable
<1>3. /\ IsScope(s1) /\ s1.tests = s.tests /\ s1.page = <<>> /\ s1.query = [q0 EXCEPT !.order = order]
  BY DEF WithSorts, SortsAsked, IsScope
<1> DEFINE q1 == s1.query
<1>4. /\ q1.params = q0.params /\ q1.select = q0.select /\ q1.where = q0.where /\ q1.having = q0.having
      /\ q1.order = order /\ q1.clauses = {} /\ q1.owned = q0.owned
      /\ q1 = [params |-> q1.params, select |-> q1.select, where |-> q1.where, having |-> q1.having,
              order |-> q1.order, clauses |-> q1.clauses, owned |-> q1.owned]
  <2> HIDE DEF order, s1
  <2> QED
    BY <1>2, <1>3
<1> DEFINE q2 == s2.query
<1>5. /\ IsScope(s2) /\ s2.tests = s.tests /\ s2.page = PageOf(Params)
      /\ q2.params = q1.params /\ q2.select = q1.select /\ q2.where = q1.where /\ q2.having = q1.having
      /\ q2.order = q1.order /\ q2.owned = q1.owned /\ (IsPaged \/ q2.clauses = {})
      /\ q2 = [params |-> q2.params, select |-> q2.select, where |-> q2.where, having |-> q2.having,
              order |-> q2.order, clauses |-> q2.clauses, owned |-> q2.owned]
  <2> DEFINE page == PageOf(Params)
  <2> HIDE DEF s1
  <2>1. CASE page = <<>>
    <3>1. s2 = s1
      BY <2>1 DEF WithPage
    <3> QED
      BY <1>3, <1>4, <2>1, <3>1
  <2>2. CASE page # <<>>
    <3>1. s2 = [s1 EXCEPT !.page = page, !.query = B!WithClause(B!WithClause(@, "limit"), "offset")]
      BY <2>2 DEF WithPage
    <3>3. IsPaged
      BY <2>2 DEF IsPaged
    <3>4. s2.query = B!WithClause(B!WithClause(q1, "limit"), "offset") /\ s2.page = page
          /\ s2.tests = s1.tests /\ IsScope(s2)
      BY <1>3, <3>1 DEF IsScope
    <3> DEFINE clauses == (q1.clauses \cup {"limit"}) \cup {"offset"}
    <3>5. s2.query = [q1 EXCEPT !.clauses = clauses]
      BY <3>4, <1>4 DEF B!WithClause
    <3> HIDE DEF clauses, q1, s2
    <3>6. /\ q2.params = q1.params /\ q2.select = q1.select /\ q2.where = q1.where /\ q2.having = q1.having
          /\ q2.order = q1.order /\ q2.owned = q1.owned
          /\ q2 = [params |-> q2.params, select |-> q2.select, where |-> q2.where, having |-> q2.having,
                  order |-> q2.order, clauses |-> q2.clauses, owned |-> q2.owned]
      BY <1>4, <3>5
    <3> QED
      BY <1>3, <3>3, <3>4, <3>6 DEF q1
  <2> QED
    BY <2>1, <2>2
<1> DEFINE q3 == r.query
<1>6. /\ IsScope(r) /\ r.tests = s2.tests /\ r.page = s2.page
      /\ q3.params = q2.params /\ q3.where = q2.where /\ q3.having = q2.having
      /\ q3.order = q2.order /\ q3.owned = q2.owned /\ q3.clauses = q2.clauses
      /\ q3.select = IF DOMAIN Under(Params, <<"fields">>) = {} THEN q2.select ELSE q2.select \o Names(Params, t)
      /\ q3 = [params |-> q3.params, select |-> q3.select, where |-> q3.where, having |-> q3.having,
              order |-> q3.order, clauses |-> q3.clauses, owned |-> q3.owned]
  <2> HIDE DEF s2
  <2>1. CASE DOMAIN Under(Params, <<"fields">>) = {}
    BY <1>1, <1>5, <2>1 DEF WithFields
  <2>2. CASE DOMAIN Under(Params, <<"fields">>) # {}
    <3> DEFINE select == q2.select \o Names(Params, t)
    <3>1. r = [s2 EXCEPT !.query.select = @ \o Names(Params, t)]
      BY <1>1, <2>2 DEF WithFields
    <3>2. r.query = [q2 EXCEPT !.select = select] /\ r.tests = s2.tests /\ r.page = s2.page /\ IsScope(r)
      BY <1>5, <3>1 DEF IsScope
    <3> HIDE DEF select, q2
    <3>3. /\ q3.params = q2.params /\ q3.where = q2.where /\ q3.having = q2.having
          /\ q3.order = q2.order /\ q3.owned = q2.owned /\ q3.clauses = q2.clauses /\ q3.select = select
          /\ q3 = [params |-> q3.params, select |-> q3.select, where |-> q3.where, having |-> q3.having,
                  order |-> q3.order, clauses |-> q3.clauses, owned |-> q3.owned]
      BY <1>5, <3>2
    <3> QED
      BY <2>2, <3>2, <3>3 DEF select
  <2> QED
    BY <2>1, <2>2
<1> HIDE DEF s1, s2, q0, q1, q2, q3, order
<1>7. q3.params = q0.params /\ q3.where = q0.where /\ q3.having = q0.having
  BY <1>4, <1>5, <1>6
<1>8. B!Conditions(q3) = B!Conditions(q0)
  BY <1>7 DEF B!Conditions
<1>9. B!Marks(q3) = B!Marks(q0)
  BY <1>8 DEF B!Marks
<1>10. Bindable(q3)
  BY <1>6, <1>7, <1>9 DEF Bindable, q0
<1> QED
  BY <1>4, <1>5, <1>6, <1>8, <1>10 DEF q0, q3, order

\* Every filter at a place is one that a callback is registered for.
LEMMA FiltersAreAsked ==
    ASSUME request \in Requests, CollsOK, NEW t, NEW path, IsPlace(path, t),
           NEW f \in FiltersOf(path, t)
    PROVE  /\ IsAsked(t, f) /\ f.values \in Seq(Cell) /\ TestOf(t, f).values \in Seq(Int)
           /\ f \in FiltersAt(path, t) \/ (IsLinked(path, t) /\ f = LinkFilter(path, t) /\ f.values # <<>>)
<1>1. t \in Types /\ IsQuery(Params)
  BY ClientsCopy DEF IsPlace, IsCopy
<1>2. IsLinked(path, t) =>
        /\ IsFiniteSet(LinkIds(path, t)) /\ LinkIds(path, t) \subseteq Cell
        /\ KindOf(t, LinkKey(path, t)) = "integer" /\ LinkKey(path, t) # None
        /\ colls[Front(path)].type \in Types
  BY PlaceBelow DEF IsLinked
<1>3. f.values \in Seq(Cell) /\ (f \in AskedAt(path, t) => IsAsked(t, f) /\ f \in FiltersAt(path, t))
  BY <1>1, <1>2, FiltersHaveCells
<1>4. CASE f \in AskedAt(path, t)
  BY <1>1, <1>3, <1>4, TestOfFilter
<1>5. CASE f \notin AskedAt(path, t)
  <2>1. IsLinked(path, t) /\ f = LinkFilter(path, t)
    BY <1>5 DEF FiltersOf
  <2>2. f.values = SetToSeq(LinkIds(path, t)) /\ f.column = LinkKey(path, t) /\ f.op = "eq" /\ f.short = TRUE
    BY <2>1 DEF LinkFilter
  <2>3. f.values # <<>>
    BY <1>2, <2>1, <2>2, SetToSeqOfFinite DEF IsLinked
  <2>4. f.column \in ColumnsOf(t) /\ KindOf(t, f.column) = "integer"
    BY <1>1, <1>2, <2>1, <2>2, KeyOfInclude DEF LinkKey
  <2>5. "eq" \in FiltersOn(t, f.column)
    BY <2>4 DEF FiltersOn, EqualityFilters
  <2>6. IsAsked(t, f)
    BY <2>2, <2>3, <2>5 DEF IsAsked
  <2>7. TestOf(t, f).values \in Seq(Int)
    BY <1>1, <1>3, <2>6, TestOfFilter
  <2> QED
    BY <1>3, <2>1, <2>3, <2>6, <2>7
<1> QED
  BY <1>4, <1>5

\* A condition that the server refuses is one that the client wrote, or of a row that
\* belongs to nobody.
LEMMA ReasonsOfTests ==
    ASSUME request \in Requests, CollsOK, NEW t, NEW path, IsPlace(path, t),
           NEW test \in TestsOf(path, t),
           test.values = <<>> \/ (KindOf(t, test.column) # "string" /\ Blank \in Range(test.values))
    PROVE  MayBeRefused(path, t)
<1>1. PICK f \in FiltersOf(path, t) : test = TestOf(t, f)
  BY DEF TestsOf
<1>2. /\ IsAsked(t, f) /\ f.values \in Seq(Cell)
      /\ f \in FiltersAt(path, t) \/ (IsLinked(path, t) /\ f = LinkFilter(path, t) /\ f.values # <<>>)
  BY FiltersAreAsked
<1>3. /\ test.column = f.column /\ (test.values = <<>> => f.values = <<>> /\ f.op \in Equalities)
      /\ Range(test.values) \subseteq Range(f.values) \cup {NullText}
  BY <1>1, <1>2, TestOfFilter DEF IsPlace
<1>4. Blank # NullText
  BY DEF Blank, NullText
<1>5. \/ f.values = <<>> /\ f.op \in Equalities
      \/ KindOf(t, f.column) # "string" /\ Blank \in Range(f.values)
  BY <1>3, <1>4
<1>6. CASE f \in FiltersAt(path, t)
  BY <1>2, <1>5, <1>6 DEF MayBeRefused
<1>7. CASE IsLinked(path, t) /\ f = LinkFilter(path, t) /\ f.values # <<>>
  <2> DEFINE base == colls[Front(path)]
  <2>1. /\ path # <<>> /\ IsFiniteSet(LinkIds(path, t)) /\ base.type \in Types /\ t \in Types
        /\ LinkKey(path, t) # None /\ IsAnswer(Front(path))
    BY <1>7, PlaceBelow DEF IsLinked
  <2>2. Blank \in LinkIds(path, t)
    <3>1. f.values = SetToSeq(LinkIds(path, t))
      BY <1>7 DEF LinkFilter
    <3>2. Blank \in Range(f.values)
      BY <1>5, <1>7
    <3> QED
      BY <2>1, <3>1, <3>2, SetToSeqOfFinite
  <2>3. \A b \in base.rows : b.id # Blank
    BY <2>1 DEF IsAnswer, Blank
  <2>4. ForeignKey(base.type, t) = "id" /\ \E b \in base.rows : Get(b, BelongsToKey(base.type, t)) = Blank
    BY <2>2, <2>3 DEF LinkIds, RelatedIds
  <2>5. RelationsOf(t, base.type) = {} /\ BelongsToKey(base.type, t) = KeyOf(base.type, t)
    BY <2>1, <2>4, KeyOfInclude DEF LinkKey
  <2> QED
    BY <2>1, <2>4, <2>5 DEF MayBeRefused
<1> QED
  BY <1>2, <1>6, <1>7

\* The innermost call.
LEMMA InnermostCall ==
    ASSUME StackOK, QueriesOK, Working \/ pc = "include"
    PROVE  /\ Len(stack) \in Nat \ {0} /\ Len(stack) \in DOMAIN stack /\ Top = stack[Len(stack)]
           /\ IsPlace(Top.path, Top.type) /\ Len(Top.path) = Len(stack) - 1
           /\ IsCopy(Top.query, {stack[j].type : j \in 1..Len(stack)}, Len(stack) > 1)
           /\ Top = [path |-> Top.path, type |-> Top.type, query |-> Top.query, next |-> Top.next]
           /\ Top.next \in Nat \ {0}
<1>1. IsSeq(stack) /\ stack # <<>>
  BY DEF StackOK
<1>2. Len(stack) \in Nat \ {0} /\ Len(stack) \in DOMAIN stack /\ Top = stack[Len(stack)]
  <2>1. stack \in Seq(Range(stack))
    BY <1>1 DEF IsSeq
  <2>2. Len(stack) \in Nat \ {0} /\ Last(stack) = stack[Len(stack)]
    BY <1>1, <2>1, FrontOfSequence
  <2>3. DOMAIN stack = 1..Len(stack)
    BY <2>1
  <2> QED
    BY <2>2, <2>3 DEF Top
<1> QED
  BY <1>2 DEF StackOK, QueriesOK

\* The scope between two calls.
LEMMA ScopeIsBindable ==
    ASSUME QueryOK
    PROVE  IsScope(scope) /\ Bindable(scope.query)
<1>1. IsScope(scope)
  BY DEF QueryOK, IsScope
<1>2. /\ scope.query = [params |-> scope.query.params, select |-> scope.query.select,
                        where |-> scope.query.where, having |-> scope.query.having,
                        order |-> scope.query.order, clauses |-> scope.query.clauses, owned |-> scope.query.owned]
      /\ scope.query.where \in Seq(B!Condition) /\ scope.query.params \in Seq(Int)
  BY DEF QueryOK, B!Query
<1> QED
  BY <1>1, <1>2 DEF QueryOK, Bindable

\* A statement with an empty condition or an unfit text was asked for by a filter.
LEMMA RefusableForAReason ==
    ASSUME request \in Requests, CollsOK, StackOK, QueriesOK, QueryOK, ScopeOK,
           pc \in {"stats", "rows"}, Refusable
    PROVE  MayBeRefused(Top.path, Top.type)
<1>1. Working
  BY DEF Working
<1>2. IsPlace(Top.path, Top.type)
  BY <1>1, InnermostCall
<1>3. scope.tests = TestsOf(Top.path, Top.type)
  BY <1>1 DEF ScopeOK
<1>4. \E test \in scope.tests :
        test.values = <<>> \/ (KindOf(Top.type, test.column) # "string" /\ Blank \in Range(test.values))
  BY DEF Refusable, QueryOK
<1> QED
  BY <1>2, <1>3, <1>4, ReasonsOfTests

\* The statement of a count or a stat is refused for its conditions only.
LEMMA AggregateRefused ==
    ASSUME QueryOK, NEW aggregate \in B!Aggregates,
           NEW s, s = [scope EXCEPT !.query = B!WithAggregate(@, aggregate)]
    PROVE  /\ s.query = [scope.query EXCEPT !.select = <<aggregate>>] /\ s.query.select = <<aggregate>>
           /\ ~Accepted(s, Top.type) => Refusable
<1> DEFINE q == s.query
           p == scope.query
<1>1. IsScope(scope) /\ Bindable(p) /\ scope.page = <<>> /\ p.order = <<>> /\ p.clauses = {}
  BY ScopeIsBindable DEF QueryOK
<1>2. q = [p EXCEPT !.select = <<aggregate>>] /\ s.tests = scope.tests /\ s.page = <<>>
  BY <1>1 DEF IsScope, B!WithAggregate
<1> HIDE DEF q, p
<1>3. /\ q.params = p.params /\ q.where = p.where /\ q.having = p.having
      /\ q.order = <<>> /\ q.clauses = {} /\ q.select = <<aggregate>>
  BY <1>1, <1>2 DEF Bindable
<1>4. B!Conditions(q) = B!Conditions(p)
  BY <1>3 DEF B!Conditions
<1>5. B!Marks(q) = 1..Len(q.params)
  <2>1. B!Marks(q) = B!Marks(p)
    BY <1>4 DEF B!Marks
  <2> QED
    BY <1>1, <1>3, <2>1 DEF Bindable
<1>6. Aggregated(q) /\ Len(q.select) = 1
  <2>1. \A a : <<a>> # <<>> /\ <<a>>[1] = a /\ Len(<<a>>) = 1
    OBVIOUS
  <2> QED
    BY <1>3, <2>1 DEF Aggregated
<1>7. ASSUME ~Accepted(s, Top.type)
      PROVE  Refusable
  <2>1. CASE ~B!Acceptable(q)
    BY <1>3, <1>4, <1>5, <2>1 DEF B!Acceptable, Refusable, p
  <2>2. CASE B!Acceptable(q)
    BY <1>2, <1>3, <1>6, <1>7, <2>2 DEF Accepted, Refusable, q
  <2> QED
    BY <2>1, <2>2
<1> QED
  BY <1>2, <1>3, <1>7 DEF p, q

\* That of a stat that stat does not know, for those too, unless a count failed.
LEMMA ScopeRefused ==
    ASSUME QueryOK, ScopeOK, Working, failures \in Nat, ~Accepted(scope, Top.type)
    PROVE  failures > 0 \/ Refusable
<1> DEFINE p == scope.query
<1>1. Bindable(p) /\ scope.page = <<>> /\ p.order = <<>> /\ p.clauses = {}
  BY ScopeIsBindable DEF QueryOK
<1>2. CASE Stays
  BY <1>2 DEF ScopeOK
<1>3. CASE ~Stays
  <2>1. p.select = <<>> /\ B!Marks(p) = 1..Len(p.params) /\ p.having = <<>>
    BY <1>3 DEF QueryOK
  <2>2. ~Aggregated(p) /\ Range(p.select) = {}
    BY <2>1, NothingIn DEF Aggregated
  <2>3. CASE ~B!Acceptable(p)
    BY <1>1, <2>1, <2>3 DEF B!Acceptable, Refusable
  <2>4. CASE B!Acceptable(p)
    BY <1>1, <2>2, <2>4 DEF Accepted, Refusable
  <2> QED
    BY <2>3, <2>4
<1> QED
  BY <1>2, <1>3

\* The statement for the rows: what is asked for, a page of it.
LEMMA RowsStatement ==
    ASSUME request \in Requests, StackOK, QueriesOK, QueryOK, ScopeOK, pc = "rows"
    PROVE  LET q == Statement.query
               idTests == IF Finds(Top.path) THEN {IdTest} ELSE {} IN
           /\ Statement.page = PageOf(Params) /\ Statement.tests = TestsOf(Top.path, Top.type) \cup idTests
           /\ q.select = IF DOMAIN Under(Params, <<"fields">>) = {} THEN scope.query.select
                         ELSE scope.query.select \o Names(Params, Top.type)
           /\ q.order = <<>> \o SetToSeq(SortsAsked(Top.query, Top.type))
           /\ IsPaged \/ q.clauses = {}
           /\ Bindable(q)
           /\ \A c \in B!Conditions(scope.query) : c \in B!Conditions(q)
           /\ \A c \in B!Conditions(q) : c \in B!Conditions(scope.query) \/ ~c.empty
<1> DEFINE s == Finished(scope, Top.query, Top.type)
<1>1. Working
  BY DEF Working
<1>2. scope.tests = TestsOf(Top.path, Top.type)
  BY <1>1 DEF ScopeOK
<1>3. /\ IsScope(scope) /\ Bindable(scope.query) /\ scope.page = <<>>
      /\ scope.query.order = <<>> /\ scope.query.clauses = {}
  BY ScopeIsBindable DEF QueryOK
<1>4. PICK above, inner : IsCopy(Top.query, above, inner)
  BY <1>1, InnermostCall
<1>5. IsQuery(Params)
  BY ClientsCopy DEF IsCopy
<1>6. /\ IsScope(s) /\ Bindable(s.query) /\ B!Conditions(s.query) = B!Conditions(scope.query)
      /\ s.tests = scope.tests /\ s.page = PageOf(Params)
      /\ s.query.select = IF DOMAIN Under(Params, <<"fields">>) = {} THEN scope.query.select
                          ELSE scope.query.select \o Names(Params, Top.type)
      /\ s.query.order = <<>> \o SetToSeq(SortsAsked(Top.query, Top.type))
      /\ IsPaged \/ s.query.clauses = {}
  BY <1>3, <1>4, <1>5, FinishedScope
<1>7. Statement = IF Finds(Top.path) THEN WithTest(s, IdTest) ELSE s
  BY DEF Statement, Asks, IdTest
<1> HIDE DEF s
<1>8. CASE ~Finds(Top.path)
  BY <1>2, <1>6, <1>7, <1>8
<1>9. CASE Finds(Top.path)
  <2>1. IdTest.values \in Seq(Int) /\ IdTest.values # <<>>
    <3>1. request.id \in Int
      BY RequestsAssumption DEF Cell, Blank
    <3>2. \A x : <<x>> # <<>> /\ (x \in Int => <<x>> \in Seq(Int))
      OBVIOUS
    <3> QED
      BY <3>1, <3>2 DEF IdTest
  <2>2. Statement = WithTest(s, IdTest)
    BY <1>7, <1>9
  <2>3. /\ Bindable(Statement.query)
        /\ \A c \in B!Conditions(s.query) : c \in B!Conditions(Statement.query)
        /\ \A c \in B!Conditions(Statement.query) :
             c \in B!Conditions(s.query) \/ (c.empty <=> IdTest.values = <<>>)
        /\ Statement.query.select = s.query.select /\ Statement.query.order = s.query.order
        /\ Statement.query.clauses = s.query.clauses
    <3>1. Statement.query = WithTest(s, IdTest).query
      BY <2>2
    <3>2. IsScope(s) /\ Bindable(s.query) /\ IdTest.values \in Seq(Int)
      BY <1>6, <2>1
    <3> DEFINE q == Statement.query
    <3>3. q = WithTest(s, IdTest).query
      BY <3>1
    <3> HIDE DEF q
    <3>4. Bindable(q)
      BY <3>2, <3>3, TestAdded
    <3>5. \A c \in B!Conditions(s.query) : c \in B!Conditions(q)
      BY <3>2, <3>3, TestAdded
    <3>6. q.select = s.query.select /\ q.order = s.query.order /\ q.clauses = s.query.clauses
      BY <3>2, <3>3, TestAdded
    <3>7. \A c \in B!Conditions(q) : c \in B!Conditions(s.query) \/ (c.empty <=> IdTest.values = <<>>)
      BY <3>2, <3>3, TestAdded
    <3> QED
      BY <3>4, <3>5, <3>6, <3>7 DEF q
  <2>4. Statement.tests = s.tests \cup {IdTest} /\ Statement.page = s.page
    BY <1>6, <2>2 DEF WithTest, IsScope
  <2> QED
    BY <1>2, <1>6, <1>9, <2>1, <2>3, <2>4
<1> QED
  BY <1>8, <1>9

\* What a query string says at a path is the value of a leaf.
LEMMA ValueOfLeaf ==
    ASSUME NEW q, NEW p
    PROVE  \/ LeavesAt(q, p) = {} /\ ValuesAt(q, p) = <<>>
           \/ \E leaf \in LeavesAt(q, p) : ValuesAt(q, p) = leaf[2]
<1>1. CASE LeavesAt(q, p) = {}
  BY <1>1 DEF ValuesAt
<1>2. CASE LeavesAt(q, p) # {}
  <2> DEFINE l == CHOOSE leaf \in LeavesAt(q, p) : TRUE
  <2>1. l \in LeavesAt(q, p)
    BY <1>2
  <2>2. ValuesAt(q, p) = l[2]
    BY <1>2 DEF ValuesAt
  <2> QED
    BY <2>1, <2>2
<1> QED
  BY <1>1, <1>2

\* The sorts of a copy are the client's, and typed.
LEMMA SortsOfCopy ==
    ASSUME NEW q, NEW above, NEW inner, IsCopy(q, above, inner),
           NEW item \in Range(ValuesAt(q, <<"sort">>))
    PROVE  item \in Range(ValuesAt(Params, <<"sort">>)) /\ (inner => item.type # None)
<1>1. ValuesAt(q, <<"sort">>) # <<>>
  BY NothingIn
<1>2. PICK leaf \in LeavesAt(q, <<"sort">>) : ValuesAt(q, <<"sort">>) = leaf[2]
  BY <1>1, ValueOfLeaf
<1>3. item \in Range(leaf[2])
  BY <1>2
<1> QED
  BY <1>3 DEF IsCopy

\* A page that the server refuses has a size or an offset that is negative.
LEMMA PageRefused ==
    ASSUME request \in Requests, NEW page, page = PageOf(Params), page # <<>>, ~(page[1] >= 0 /\ page[2] >= 0)
    PROVE  \E n \in Range(PageOf(Params)) : n < 0
<1> DEFINE number == ValuesAt(Params, <<"page", "number">>)
           size   == ValuesAt(Params, <<"page", "size">>)
           offset == Wrapped((number[1] - 1) * size[1])
<1>1. number # <<>> /\ size # <<>> /\ page = <<size[1], offset>>
  BY DEF PageOf
<1>2. ASSUME NEW name, name \in {"number", "size"}
      PROVE  ValuesAt(Params, <<"page", name>>)[1] \in Int
  <2> DEFINE v == ValuesAt(Params, <<"page", name>>)
  <2>1. v # <<>>
    BY <1>1, <1>2
  <2>2. IsValues(<<"page", name>>, v)
    <3> HIDE DEF v
    <3> QED
      BY <2>1, ValuesAsWritten DEF v
  <2>3. v \in Seq(-IntLimit..(IntLimit - 1))
    <3>1. <<"page", name>>[1] = "page"
      BY PairOf
    <3> QED
      BY <2>2, <3>1 DEF IsValues
  <2> HIDE DEF v
  <2>4. \A S : v \in Seq(S) => v[1] \in S
    BY <2>1
  <2>5. v[1] \in -IntLimit..(IntLimit - 1)
    BY <2>3, <2>4
  <2> QED
    BY <2>5, TypesAssumption DEF v
<1>3. number[1] \in Int /\ size[1] \in Int
  BY <1>2
<1> HIDE DEF number, size
<1>4. (number[1] - 1) * size[1] \in Int
  <2>1. number[1] - 1 \in Int
    BY <1>3
  <2>2. \A m, n \in Int : m * n \in Int
    OBVIOUS
  <2> QED
    BY <1>3, <2>1, <2>2
<1>5. ASSUME NEW n \in Int
      PROVE  Wrapped(n) \in Int
  <2>1. n + IntLimit \in Int /\ 2 * IntLimit \in Nat \ {0} /\ IntLimit \in Int
    BY TypesAssumption
  <2>2. \A m \in Int, d \in Nat \ {0} : m % d \in Int
    OBVIOUS
  <2>3. (n + IntLimit) % (2 * IntLimit) \in Int
    BY <2>1, <2>2
  <2> QED
    BY <2>1, <2>3 DEF Wrapped
<1>6. offset \in Int
  BY <1>4, <1>5
<1> HIDE DEF offset
<1>7. page[1] = size[1] /\ page[2] = offset /\ {1, 2} \subseteq DOMAIN page
  BY <1>1
<1>8. page[1] \in Range(page) /\ page[2] \in Range(page) /\ (page[1] < 0 \/ page[2] < 0)
  BY <1>3, <1>6, <1>7 DEF Range
<1> QED
  BY <1>8

\* A statement for rows that is refused is so for a reason.
LEMMA RowsRefused ==
    ASSUME request \in Requests, CollsOK, StackOK, QueriesOK, QueryOK, ScopeOK, pc = "rows",
           failures \in Nat,
           ~Accepted(Statement, Top.type)
    PROVE  MayBeRefused(Top.path, Top.type)
<1> DEFINE q == Statement.query
           t == Top.type
           path == Top.path
           idTests == IF Finds(path) THEN {IdTest} ELSE {}
<1>1. Working
  BY DEF Working
<1>2. IsPlace(path, t) /\ t \in Types
  BY <1>1, InnermostCall DEF IsPlace
<1>3. scope.tests = TestsOf(path, t)
  BY <1>1 DEF ScopeOK
<1>4. /\ Statement.page = PageOf(Params) /\ Statement.tests = TestsOf(path, t) \cup idTests
      /\ q.select = IF DOMAIN Under(Params, <<"fields">>) = {} THEN scope.query.select
                    ELSE scope.query.select \o Names(Params, t)
      /\ q.order = <<>> \o SetToSeq(SortsAsked(Top.query, t))
      /\ IsPaged \/ q.clauses = {}
      /\ Bindable(q)
      /\ \A c \in B!Conditions(q) : c \in B!Conditions(scope.query) \/ ~c.empty
  BY RowsStatement
<1>5. CASE Refusable
  <2>1. pc \in {"stats", "rows"}
    OBVIOUS
  <2> QED
    BY <1>5, <2>1, RefusableForAReason
<1>6. CASE ~Refusable /\ Stays
  <2>1. failures # 0
    BY <1>1, <1>6 DEF ScopeOK
  <2>2. failures > 0
    BY <2>1
  <2> QED
    BY <2>2 DEF MayBeRefused
<1>7. CASE ~Refusable /\ ~Stays
  <2>1. scope.query.select = <<>>
    BY <1>7 DEF QueryOK
  <2>2. q.select = NamesAsked(t)
    <3>1. CASE DOMAIN Under(Params, <<"fields">>) = {}
      BY <1>4, <2>1, <3>1 DEF NamesAsked
    <3>2. CASE DOMAIN Under(Params, <<"fields">>) # {}
      <4>1. \A S : \A s \in Seq(S) : <<>> \o s = s
        OBVIOUS
      <4>2. Names(Params, t) \in Seq(Range(Names(Params, t)))
        BY <1>2, NamesAre DEF IsSeq
      <4> QED
        BY <1>4, <2>1, <3>2, <4>1, <4>2 DEF NamesAsked
    <3> QED
      BY <3>1, <3>2
  <2>3. CASE ~B!Acceptable(q)
    <3>1. q.order # <<>> /\ q.clauses # {}
      BY <1>4, <1>7, <2>3 DEF B!Acceptable, Bindable, Refusable
    <3>2. SortsAsked(Top.query, t) # {}
      <4> SUFFICES ASSUME SortsAsked(Top.query, t) = {}
                   PROVE  FALSE
        OBVIOUS
      <4>1. SetToSeq({}) = <<>>
        BY FS_EmptySet, SetToSeqOfFinite
      <4>2. <<>> \o <<>> = <<>>
        OBVIOUS
      <4> QED
        BY <1>4, <3>1, <4>1, <4>2
    <3>3. PICK item \in Range(ValuesAt(Top.query, <<"sort">>)) : item.type \in {None, t}
      BY <3>2 DEF SortsAsked, Sorts
    <3>4. item \in Range(ValuesAt(Params, <<"sort">>)) /\ (Len(stack) > 1 => item.type # None)
      <4>1. IsCopy(Top.query, {stack[j].type : j \in 1..Len(stack)}, Len(stack) > 1)
        BY <1>1, InnermostCall
      <4> QED
        BY <4>1, SortsOfCopy
    <3>5. Len(stack) > 1 \/ path = <<>>
      <4>1. Len(path) = Len(stack) - 1 /\ Len(stack) \in Nat \ {0} /\ path \in Seq(Nat)
        BY <1>1, InnermostCall DEF IsPlace
      <4>2. \A s \in Seq(Nat) : Len(s) = 0 => s = <<>>
        OBVIOUS
      <4> QED
        BY <4>1, <4>2
    <3>6. IsPaged
      BY <1>4, <3>1
    <3> QED
      BY <3>3, <3>4, <3>5, <3>6 DEF MayBeRefused
  <2>4. CASE \E test \in Statement.tests : KindOf(t, test.column) # "string" /\ Blank \in Range(test.values)
    <3>1. PICK test \in Statement.tests : KindOf(t, test.column) # "string" /\ Blank \in Range(test.values)
      BY <2>4
    <3>2. CASE test \in TestsOf(path, t)
      BY <1>2, <3>1, <3>2, ReasonsOfTests
    <3>3. CASE Finds(path) /\ test = IdTest
      <4>1. \A x : Range(<<x>>) = {x}
        BY DEF Range
      <4>2. request.id = Blank
        BY <3>1, <3>3, <4>1 DEF IdTest
      <4> QED
        BY <3>3, <4>2 DEF MayBeRefused
    <3> QED
      BY <1>4, <3>2, <3>3
  <2>5. CASE ~(IF Aggregated(q) THEN Len(q.select) = 1 /\ q.order = <<>>
               ELSE Range(q.select) \subseteq ColumnsOf(t))
    <3>1. CASE DOMAIN Under(Params, <<"fields">>) = {}
      <4>1. q.select = <<>> /\ ~Aggregated(q)
        BY <2>2, <3>1 DEF NamesAsked, Aggregated
      <4>2. Range(q.select) = {}
        BY <4>1, NothingIn
      <4> QED
        BY <2>5, <4>1, <4>2
    <3>2. CASE DOMAIN Under(Params, <<"fields">>) # {}
      <4>1. /\ q.select[1] = "id"
            /\ Range(q.select) \subseteq ColumnsOf(t) \cup Range(ValuesAt(Params, <<"fields", t>>))
        BY <1>2, <2>2, <3>2, NamesAre DEF NamesAsked
      <4>2. ~Aggregated(q)
        BY <4>1 DEF Aggregated, B!Aggregates
      <4>3. \E name \in Range(ValuesAt(Params, <<"fields", t>>)) : name \notin ColumnsOf(t)
        BY <2>5, <4>1, <4>2
      <4> QED
        BY <4>3 DEF MayBeRefused
    <3> QED
      BY <3>1, <3>2
  <2>6. CASE Statement.page # <<>> /\ ~(Statement.page[1] >= 0 /\ Statement.page[2] >= 0)
    <3>1. \E n \in Range(PageOf(Params)) : n < 0
      BY <1>4, <2>6, PageRefused
    <3> QED
      BY <3>1 DEF MayBeRefused
  <2> QED
    BY <2>3, <2>4, <2>5, <2>6 DEF Accepted
<1> QED
  BY <1>5, <1>6, <1>7

-----------------------------------------------------------------------------
(* What a step leaves as it is: collections are only added. *)

Grows ==
    /\ request' = request
    /\ \A path \in DOMAIN colls : path \in DOMAIN colls' /\ colls'[path] = colls[path]

\* What is asked at a place stays.
LEMMA PlaceStays ==
    ASSUME Grows, NEW path, NEW t, IsPlace(path, t)
    PROVE  /\ IsPlace(path, t)' /\ Params' = Params /\ Above(path)' = Above(path)
           /\ FiltersAt(path, t)' = FiltersAt(path, t) /\ FiltersOf(path, t)' = FiltersOf(path, t)
           /\ TestsOf(path, t)' = TestsOf(path, t)
           /\ Finds(path)' <=> Finds(path)
           /\ path # <<>> => /\ Front(path) \in DOMAIN colls /\ colls'[Front(path)] = colls[Front(path)]
                             /\ LinkKey(path, t)' = LinkKey(path, t) /\ LinkIds(path, t)' = LinkIds(path, t)
           /\ IsLinked(path, t)' <=> IsLinked(path, t)
<1>1. /\ request' = request /\ Params' = Params
      /\ (Finds(path)' <=> Finds(path)) /\ (Finds(Front(path))' <=> Finds(Front(path)))
  BY DEF Grows, Params, Finds
<1>2. path \in Seq(Nat) /\ \A n \in 0..(Len(path) - 1) : SubSeq(path, 1, n) \in DOMAIN colls
  BY DEF IsPlace
<1>3. \A n \in 0..(Len(path) - 1) :
        SubSeq(path, 1, n) \in DOMAIN colls' /\ colls'[SubSeq(path, 1, n)] = colls[SubSeq(path, 1, n)]
  BY <1>2 DEF Grows
<1>4. Above(path)' = Above(path)
  BY <1>3 DEF Above
<1>5. ASSUME path # <<>>
      PROVE  Front(path) \in DOMAIN colls /\ colls'[Front(path)] = colls[Front(path)]
  <2>1. Len(path) - 1 \in 0..(Len(path) - 1)
    BY <1>2, <1>5
  <2>2. Front(path) = SubSeq(path, 1, Len(path) - 1)
    BY DEF Front
  <2> QED
    BY <1>2, <1>3, <2>1, <2>2
<1>6. ASSUME path # <<>>
      PROVE  LinkKey(path, t)' = LinkKey(path, t) /\ LinkIds(path, t)' = LinkIds(path, t)
  <2>1. LinkKey(path, t)' = LinkKey(path, t)
    BY <1>5, <1>6 DEF LinkKey
  <2>2. LinkIds(path, t)' = LinkIds(path, t)
    BY <1>1, <1>5, <1>6 DEF LinkIds, RelatedIds
  <2> QED
    BY <2>1, <2>2
<1>7. IsPlace(path, t)'
  <2>1. path = <<>> => t = request'.type
    BY <1>1 DEF IsPlace
  <2>2. path # <<>> => (LinkKey(path, t) # None)'
    BY <1>6 DEF IsPlace
  <2>3. t \in Types
    BY DEF IsPlace
  <2> QED
    BY <1>2, <1>3, <2>1, <2>2, <2>3 DEF IsPlace
<1>8. FiltersAt(path, t)' = FiltersAt(path, t)
  BY <1>1, <1>4 DEF FiltersAt
<1>9. IsLinked(path, t)' <=> IsLinked(path, t)
  <2>1. LeavesAt(Params, <<"filter">>)' = LeavesAt(Params, <<"filter">>)
    BY <1>1
  <2>2. CASE path = <<>>
    BY <2>2 DEF IsLinked
  <2>3. CASE path # <<>>
    <3>1. Under(Params, <<"filter", t, LinkKey(path, t)>>)' = Under(Params, <<"filter", t, LinkKey(path, t)>>)
      BY <1>1, <1>6, <2>3
    <3> QED
      BY <1>4, <1>6, <2>1, <2>3, <3>1 DEF IsLinked
  <2> QED
    BY <2>2, <2>3
<1>10. FiltersOf(path, t)' = FiltersOf(path, t)
  <2>1. AskedAt(path, t)' = AskedAt(path, t)
    BY <1>8 DEF AskedAt
  <2>2. CASE ~IsLinked(path, t)
    BY <1>9, <2>1, <2>2 DEF FiltersOf
  <2>3. CASE IsLinked(path, t)
    <3>1. LinkFilter(path, t)' = LinkFilter(path, t)
      BY <1>6, <2>3 DEF LinkFilter, IsLinked
    <3> QED
      BY <1>9, <2>1, <2>3, <3>1 DEF FiltersOf
  <2> QED
    BY <2>2, <2>3
<1>11. TestsOf(path, t)' = TestsOf(path, t)
  BY <1>10 DEF TestsOf
<1> QED
  BY <1>1, <1>4, <1>5, <1>6, <1>7, <1>8, <1>9, <1>10, <1>11

\* A reason stays one.
LEMMA ReasonStays ==
    ASSUME Grows, {failures, failures'} \subseteq Nat, failures <= failures',
           NEW path, NEW t, IsPlace(path, t), MayBeRefused(path, t)
    PROVE  MayBeRefused(path, t)'
<1>1. /\ Params' = Params /\ request' = request /\ (Finds(path)' <=> Finds(path))
      /\ FiltersAt(path, t)' = FiltersAt(path, t)
      /\ path # <<>> => colls'[Front(path)] = colls[Front(path)]
  BY PlaceStays DEF Grows
<1>2. CASE failures > 0
  BY <1>2 DEF MayBeRefused
<1>3. CASE Finds(path) /\ request.id = Blank
  BY <1>1, <1>3 DEF MayBeRefused
<1>4. CASE \E f \in FiltersAt(path, t) : IsAsked(t, f) /\
          \/ KindOf(t, f.column) # "string" /\ Blank \in Range(f.values)
          \/ f.op \in Equalities /\ f.values = <<>>
  BY <1>1, <1>4 DEF MayBeRefused
<1>5. CASE IsPaged /\ \E item \in Range(ValuesAt(Params, <<"sort">>)) :
          item.type = t \/ (item.type = None /\ path = <<>>)
  <2>1. IsPaged' /\ ValuesAt(Params, <<"sort">>)' = ValuesAt(Params, <<"sort">>)
    BY <1>1, <1>5 DEF IsPaged
  <2> QED
    BY <1>5, <2>1 DEF MayBeRefused
<1>6. CASE \E n \in Range(PageOf(Params)) : n < 0
  BY <1>1, <1>6 DEF MayBeRefused
<1>7. CASE \E name \in Range(ValuesAt(Params, <<"fields", t>>)) : name \notin ColumnsOf(t)
  BY <1>1, <1>7 DEF MayBeRefused
<1>8. CASE path # <<>> /\ \E b \in colls[Front(path)].rows :
          LET base == colls[Front(path)].type
          IN RelationsOf(t, base) = {} /\ Get(b, KeyOf(base, t)) = Blank
  BY <1>1, <1>8 DEF MayBeRefused
<1> QED
  BY <1>2, <1>3, <1>4, <1>5, <1>6, <1>7, <1>8 DEF MayBeRefused

\* A collection stays what it is.
LEMMA AnswerStays ==
    ASSUME Grows, {failures, failures'} \subseteq Nat, failures <= failures',
           NEW path \in DOMAIN colls, IsAnswer(path), CountStays(path)' <=> CountStays(path)
    PROVE  IsAnswer(path)'
<1> DEFINE c == colls[path]
<1>1. colls'[path] = c /\ IsPlace(path, c.type)
  BY DEF Grows, IsAnswer
<1>2. PICK t : t = c.type /\ t = colls'[path].type
  BY <1>1
<1>3. /\ IsPlace(path, t)' /\ Params' = Params /\ TestsOf(path, t)' = TestsOf(path, t)
      /\ Finds(path)' <=> Finds(path)
  BY <1>1, <1>2, PlaceStays
<1>4. ~c.ok => MayBeRefused(path, t)'
  <2>1. ~c.ok => MayBeRefused(path, t)
    BY <1>2 DEF IsAnswer
  <2> QED
    BY <1>1, <1>2, <2>1, ReasonStays
<1>5. ColumnsAt(t)' = ColumnsAt(t)
  BY <1>3 DEF ColumnsAt
<1>6. PageOf(Params)' = PageOf(Params)
  BY <1>3
<1>7. AllAt(path)' = AllAt(path)
  <2>1. \A row : InstanceAt(t, row)' = InstanceAt(t, row)
    BY <1>5 DEF InstanceAt
  <2>2. AllAt(path) = {InstanceAt(t, row) : row \in Matching(c.seen, TestsOf(path, t))}
    BY <1>2 DEF AllAt
  <2>3. AllAt(path)' = {InstanceAt(t, row)' : row \in Matching(c.seen, TestsOf(path, t))}
    BY <1>1, <1>2, <1>3 DEF AllAt
  <2> QED
    BY <2>1, <2>2, <2>3
<1>8. (failures' = 0 => failures = 0)
  OBVIOUS
<1>9. c.ok /\ ~CountStays(path) =>
         /\ ColumnsAt(t) \subseteq ColumnsOf(t) /\ c.rows \subseteq AllAt(path)
         /\ ~Finds(path) => Cardinality(c.rows) = PageSize(Cardinality(AllAt(path)), PageOf(Params))
  BY <1>2 DEF IsAnswer
<1>10. /\ c.ok \in BOOLEAN /\ IsTable(t, c.seen) /\ IsFiniteSet(c.rows)
       /\ \A r \in c.rows : r.id \in Nat /\ IsInstance(t, r)
       /\ ~c.ok => c.rows = {}
       /\ CountStays(path) => (\A r \in c.rows : DOMAIN r.cells = {}) /\ (failures = 0 => c.rows = {})
  BY <1>2 DEF IsAnswer
<1>11. /\ colls'[path].ok = c.ok /\ colls'[path].rows = c.rows /\ colls'[path].seen = c.seen
       /\ colls'[path].type = t
  BY <1>1, <1>2
<1> HIDE DEF c
<1> QED
  BY <1>3, <1>4, <1>5, <1>6, <1>7, <1>8, <1>9, <1>10, <1>11 DEF IsAnswer

\* A stat stays what it is.
LEMMA StatStays ==
    ASSUME Grows, NEW e, IsStat(e)
    PROVE  IsStat(e)'
<1>1. PICK path, t : path = e.path /\ t = e.of
  OBVIOUS
<1>2. IsPlace(path, t)' /\ TestsOf(path, t)' = TestsOf(path, t)
  BY <1>1, PlaceStays DEF IsStat
<1> QED
  BY <1>1, <1>2 DEF IsStat

\* Calls and collections as they are.
LEMMA StackStays ==
    ASSUME StackOK, Grows, colls' = colls, stack' = stack,
           Working' => Working, pc' = "include" => pc = "include"
    PROVE  StackOK'
<1>1. \A k \in DOMAIN stack : IsPlace(stack[k].path, stack[k].type)'
  <2> SUFFICES ASSUME NEW k \in DOMAIN stack
               PROVE  IsPlace(stack[k].path, stack[k].type)'
    OBVIOUS
  <2>1. PICK path, t : path = stack[k].path /\ t = stack[k].type
    OBVIOUS
  <2>2. IsPlace(path, t)'
    BY <2>1, PlaceStays DEF StackOK
  <2> QED
    BY <2>1, <2>2
<1>2. Top' = Top
  BY DEF Top
<1> QED
  BY <1>1, <1>2 DEF StackOK

\* A step that leaves the calls and the collections.
LEMMA CallsStay ==
    ASSUME IInv, UNCHANGED <<request, stack, colls, stats>>, failures' \in Nat, failures <= failures',
           Working' => Working, pc' = "include" => pc = "include"
    PROVE  Grows /\ StackOK' /\ QueriesOK' /\ CollsOK'
<1>1. Grows
  BY DEF Grows
<1>2. StackOK'
  BY <1>1, StackStays DEF IInv
<1>3. QueriesOK'
  <2>1. Params' = Params
    BY DEF Params
  <2> QED
    BY <2>1 DEF IInv, QueriesOK, IsCopy, Whole
<1>4. CollsOK'
  <2> SUFFICES ASSUME NEW path \in DOMAIN colls
               PROVE  IsAnswer(path)'
    BY DEF CollsOK
  <2>1. CountStays(path)' <=> CountStays(path)
    BY DEF CountStays
  <2>2. IsAnswer(path)
    BY DEF IInv, CollsOK
  <2>3. failures \in Nat
    BY DEF IInv, WorldOK
  <2> QED
    BY <1>1, <2>1, <2>2, <2>3, AnswerStays
<1> QED
  BY <1>1, <1>2, <1>3, <1>4

-----------------------------------------------------------------------------
(* The invariant, action by action. *)

\* Stats as they are, until the rows are asked for.
LEMMA StatsStay ==
    ASSUME IInv, Grows, UNCHANGED <<stack, colls, stats>>, Working, pc # "rows", pc' = "rows" => ~Stays'
    PROVE  StatsOK'
<1>1. Top' = Top /\ Top.path \notin DOMAIN colls
  BY DEF Top, IInv, StackOK
<1>2. IsSeq(stats) /\ \A k \in DOMAIN stats :
        /\ IsStat(stats[k]) /\ stats[k].path \in DOMAIN colls /\ colls[stats[k].path].type = stats[k].of
  BY DEF IInv, StatsOK
<1>3. \A k \in DOMAIN stats : IsStat(stats[k])'
  <2> SUFFICES ASSUME NEW k \in DOMAIN stats
               PROVE  IsStat(stats[k])'
    OBVIOUS
  <2>1. PICK e : e = stats[k]
    OBVIOUS
  <2>2. IsStat(e)'
    BY <1>2, <2>1, StatStays
  <2> QED
    BY <2>1, <2>2
<1>4. ~CountStays(Top.path)'
  BY <1>1, <1>2 DEF CountStays
<1>5. \A j, k \in DOMAIN stats : stats[j].path = stats[k].path => j = k
  BY DEF IInv, StatsOK
<1> QED
  BY <1>2, <1>3, <1>4, <1>5 DEF StatsOK

\* What is asked of the innermost call stays.
LEMMA CallStays ==
    ASSUME Grows, StackOK, QueriesOK, Working \/ pc = "include", Top' = Top
    PROVE  /\ FiltersOf(Top.path, Top.type)' = FiltersOf(Top.path, Top.type)
           /\ TestsOf(Top.path, Top.type)' = TestsOf(Top.path, Top.type)
           /\ FiltersAt(Top.path, Top.type)' = FiltersAt(Top.path, Top.type)
<1>1. PICK path, t : path = Top.path /\ t = Top.type
  OBVIOUS
<1>2. IsPlace(path, t)
  BY <1>1, InnermostCall
<1>3. /\ FiltersAt(path, t)' = FiltersAt(path, t) /\ FiltersOf(path, t)' = FiltersOf(path, t)
      /\ TestsOf(path, t)' = TestsOf(path, t)
  BY <1>2, PlaceStays
<1>4. path = Top'.path /\ t = Top'.type
  BY <1>1
<1> QED
  BY <1>1, <1>3, <1>4

\* And so do the reasons for which it may be refused.
LEMMA CallMayBeRefused ==
    ASSUME Grows, StackOK, QueriesOK, Working \/ pc = "include", Top' = Top,
           {failures, failures'} \subseteq Nat, failures <= failures', MayBeRefused(Top.path, Top.type)
    PROVE  MayBeRefused(Top.path, Top.type)'
<1>1. PICK path, t : path = Top.path /\ t = Top.type
  OBVIOUS
<1>2. IsPlace(path, t) /\ MayBeRefused(path, t)
  BY <1>1, InnermostCall
<1>3. MayBeRefused(path, t)'
  BY <1>2, ReasonStays
<1>4. path = Top'.path /\ t = Top'.type
  BY <1>1
<1> QED
  BY <1>3, <1>4

\* The callback of a filter adds its test, or crashes on the value it has not.
LEMMA FilterSteps ==
    ASSUME IInv, ApplyFilter
    PROVE  IInv'
<1> DEFINE t == Top.type
           path == Top.path
<1>1. /\ pc = "filters" /\ UNCHANGED <<tables, request, stack, colls, stats, writes, failures>>
      /\ Working /\ Top' = Top
  BY DEF ApplyFilter, Working, Top
<1>2. PICK f \in scope.todo :
         IF CrashesOn(f) THEN pc' = "crashed" /\ UNCHANGED scope
         ELSE /\ scope' = WithTest([scope EXCEPT !.todo = @ \ {f}], TestOf(t, f))
              /\ UNCHANGED pc
  BY DEF ApplyFilter
<1>3. /\ request \in Requests /\ CollsOK /\ StackOK /\ QueriesOK /\ QueryOK /\ ScopeOK /\ WorldOK
      /\ failures \in Nat /\ pc' \in {"filters", "crashed"}
  BY <1>1, <1>2 DEF IInv, WorldOK
<1>4. IsPlace(path, t)
  BY <1>1, <1>3, InnermostCall
<1>5. /\ scope.todo \subseteq FiltersOf(path, t) /\ scope.stat = <<>> /\ ~Stays
      /\ scope.tests \cup {TestOf(t, g) : g \in scope.todo} = TestsOf(path, t)
  BY <1>1, <1>3 DEF ScopeOK, Stays
<1>6. /\ IsAsked(t, f) /\ f.values \in Seq(Cell) /\ TestOf(t, f).values \in Seq(Int)
      /\ f \in FiltersAt(path, t) \/ (IsLinked(path, t) /\ f = LinkFilter(path, t) /\ f.values # <<>>)
  BY <1>3, <1>4, <1>5, FiltersAreAsked
<1>7. Grows /\ StackOK' /\ QueriesOK' /\ CollsOK'
  <2>1. failures' \in Nat /\ failures <= failures' /\ (Working' => Working) /\ (pc' = "include" => pc = "include")
    BY <1>1, <1>3
  <2> QED
    BY <1>1, <2>1, CallsStay
<1>8. StatsOK'
  BY <1>1, <1>3, <1>7, StatsStay
<1>9. WorldOK'
  BY <1>1, <1>3 DEF WorldOK
<1>10. FiltersOf(path, t)' = FiltersOf(path, t) /\ TestsOf(path, t)' = TestsOf(path, t)
       /\ FiltersAt(path, t)' = FiltersAt(path, t)
  BY <1>1, <1>3, <1>7, CallStays
<1>11. CASE CrashesOn(f)
  <2>1. pc' = "crashed" /\ scope' = scope
    BY <1>2, <1>11
  <2>2. QueryOK'
    BY <1>1, <1>3, <2>1 DEF QueryOK, Stays
  <2>3. ScopeOK'
    BY <2>1 DEF ScopeOK, Working
  <2>4. f \in FiltersAt(path, t)
    BY <1>6, <1>11 DEF CrashesOn
  <2>5. CrashOK'
    BY <1>1, <1>6, <1>10, <1>11, <2>4 DEF CrashOK
  <2> QED
    BY <1>7, <1>8, <1>9, <2>2, <2>3, <2>5 DEF IInv
<1>12. CASE ~CrashesOn(f)
  <2> DEFINE s == [scope EXCEPT !.todo = @ \ {f}]
             test == TestOf(t, f)
  <2>1. pc' = "filters" /\ scope' = WithTest(s, test)
    BY <1>1, <1>2, <1>12
  <2>2. IsScope(scope) /\ Bindable(scope.query)
    BY <1>3, ScopeIsBindable
  <2>3. /\ IsScope(s) /\ s.query = scope.query /\ s.tests = scope.tests /\ s.todo = scope.todo \ {f}
        /\ s.page = scope.page /\ s.asked = scope.asked /\ s.stat = scope.stat
    BY <2>2 DEF IsScope
  <2> HIDE DEF s
  <2>4. /\ scope'.tests = scope.tests \cup {test} /\ scope'.todo = scope.todo \ {f} /\ scope'.page = <<>>
        /\ scope'.asked = scope.asked /\ scope'.stat = <<>> /\ IsScope(scope')
    <3> DEFINE query == IF Len(test.values) = 1 THEN B!WithWhere(s.query, test.values)
                        ELSE B!WithWhereIn(s.query, test.values)
    <3> HIDE DEF test
    <3>1. scope' = [s EXCEPT !.tests = @ \cup {test}, !.query = query]
      BY <2>1 DEF WithTest
    <3> HIDE DEF query
    <3>2. scope.page = <<>>
      BY <1>3 DEF QueryOK
    <3>3. /\ scope'.tests = scope.tests \cup {test} /\ scope'.todo = s.todo /\ scope'.page = s.page
          /\ scope'.asked = s.asked /\ scope'.stat = s.stat
      BY <2>3, <3>1 DEF IsScope
    <3>4. IsScope(scope')
      BY <2>3, <3>1 DEF IsScope
    <3> QED
      BY <1>5, <2>3, <3>2, <3>3, <3>4
  <2>5. PICK q : q = scope'.query
    OBVIOUS
  <2>6. q = WithTest(s, test).query /\ Bindable(s.query) /\ test.values \in Seq(Int)
    BY <1>6, <2>1, <2>2, <2>3, <2>5
  <2>7. Bindable(q)
    BY <2>3, <2>6, TestAdded
  <2>8. \A c \in B!Conditions(q) : c \in B!Conditions(s.query) \/ (c.empty <=> test.values = <<>>)
    BY <2>3, <2>6, TestAdded
  <2>9. q.select = s.query.select /\ q.order = s.query.order /\ q.clauses = s.query.clauses /\ q.owned = s.query.owned
    BY <2>3, <2>6, TestAdded
  <2>10. QueryOK'
    <3>1. /\ scope.query \in B!Query /\ scope.query.select = <<>> /\ scope.query.order = <<>>
          /\ scope.query.clauses = {} /\ scope.query.owned \in BOOLEAN
          /\ \A c \in B!Conditions(scope.query) : c.empty => \E g \in scope.tests : g.values = <<>>
      BY <1>3, <1>5 DEF QueryOK, B!Query
    <3>2. q \in B!Query
      BY <2>3, <2>7, <2>9, <3>1 DEF Bindable, B!Query
    <3>3. \A c \in B!Conditions(q) : c.empty => \E g \in scope.tests \cup {test} : g.values = <<>>
      BY <2>3, <2>8, <3>1
    <3>4. q.having = <<>> /\ B!Marks(q) = 1..Len(q.params)
      BY <2>7 DEF Bindable
    <3> HIDE DEF test
    <3> QED
      BY <2>3, <2>4, <2>5, <2>9, <3>1, <3>2, <3>3, <3>4 DEF QueryOK, Stays, IsScope
  <2>11. ScopeOK'
    <3>1. scope'.tests \cup {TestOf(t, g) : g \in scope'.todo} = TestsOf(path, t)
      BY <1>5, <2>4
    <3>2. /\ scope'.todo \subseteq FiltersOf(path, t) /\ DOMAIN scope'.asked \subseteq Nat
          /\ \A k \in DOMAIN scope'.asked : scope'.asked[k].type \in {None, t}
      BY <1>1, <1>3, <1>5, <2>4 DEF ScopeOK
    <3>3. scope'.stat = <<>> /\ ~Stays'
      BY <2>4 DEF Stays
    <3> QED
      BY <1>1, <1>10, <2>1, <3>1, <3>2, <3>3 DEF ScopeOK
  <2>12. CrashOK'
    BY <2>1 DEF CrashOK
  <2> QED
    BY <1>7, <1>8, <1>9, <2>10, <2>11, <2>12 DEF IInv
<1> QED
  BY <1>11, <1>12

\* Behind the last filter the tests are those asked at the place.
LEMMA FiltersAppliedSteps ==
    ASSUME IInv, FiltersApplied
    PROVE  IInv'
<1>1. /\ pc = "filters" /\ scope.todo = {} /\ pc' \in {"rows", "stats"} /\ scope' = scope
      /\ UNCHANGED <<tables, request, stack, colls, stats, writes, failures>>
      /\ Working /\ Working' /\ Top' = Top
  BY DEF FiltersApplied, Working, Top
<1>2. /\ StackOK /\ QueriesOK /\ QueryOK /\ ScopeOK /\ WorldOK /\ failures \in Nat
  BY DEF IInv, WorldOK
<1>3. scope.stat = <<>> /\ ~Stays /\ ~Stays'
  BY <1>1, <1>2 DEF ScopeOK, Stays
<1>4. Grows /\ StackOK' /\ QueriesOK' /\ CollsOK'
  <2>1. failures' \in Nat /\ failures <= failures' /\ (Working' => Working) /\ (pc' = "include" => pc = "include")
    BY <1>1, <1>2
  <2> QED
    BY <1>1, <2>1, CallsStay
<1>5. StatsOK'
  BY <1>1, <1>3, <1>4, StatsStay
<1>6. WorldOK'
  BY <1>1, <1>2 DEF WorldOK
<1>7. QueryOK'
  BY <1>1, <1>2, <1>3 DEF QueryOK
<1>8. ScopeOK'
  <2>1. FiltersOf(Top.path, Top.type)' = FiltersOf(Top.path, Top.type)
        /\ TestsOf(Top.path, Top.type)' = TestsOf(Top.path, Top.type)
    BY <1>1, <1>2, <1>4, CallStays
  <2> QED
    BY <1>1, <1>2, <1>3, <2>1 DEF ScopeOK
<1>9. CrashOK'
  BY <1>1 DEF CrashOK
<1> QED
  BY <1>4, <1>5, <1>6, <1>7, <1>8, <1>9 DEF IInv

\* The stat that is asked for next, and those behind it.
LEMMA AskedNext ==
    ASSUME IInv, Asking
    PROVE  /\ Ask.type \in {None, Top.type} /\ DOMAIN OthersAsked \subseteq DOMAIN scope.asked
           /\ \A k \in DOMAIN OthersAsked : OthersAsked[k] = scope.asked[k]
           /\ pc = "stats" /\ Working
<1>1. Working /\ pc = "stats" /\ DOMAIN scope.asked # {}
  BY DEF Asking, Working
<1>2. DOMAIN scope.asked \subseteq Nat /\ \A k \in DOMAIN scope.asked : scope.asked[k].type \in {None, Top.type}
  BY <1>1 DEF IInv, ScopeOK
<1>3. Min(DOMAIN scope.asked) \in DOMAIN scope.asked
  BY <1>1, <1>2, LeastOfNaturals
<1>4. Ask.type \in {None, Top.type}
  BY <1>2, <1>3 DEF Ask, First
<1> QED
  BY <1>1, <1>4 DEF OthersAsked, Restrict

\* A stat is made: of the rows selected, unless its statement is refused.
LEMMA ValuedSteps ==
    ASSUME IInv, Asking, UNCHANGED <<tables, request, stack, pc, colls, stats, writes>>,
           NEW over, NEW ok \in BOOLEAN, NEW query, Valued(over, ok, query),
           query = [scope.query EXCEPT !.select = IF ok THEN <<>> ELSE <<"count(*)">>],
           over \subseteq {row.id : row \in tables[Top.type]}, ok /\ Summarises(Ask) => over = Found,
           failures' \in 0..MaxFailures, failures <= failures', ~ok /\ failures' = 0 => Refusable
    PROVE  IInv'
<1> DEFINE t == Top.type
           path == Top.path
           select == IF ok THEN <<>> ELSE <<"count(*)">>
<1>0. PICK e : e = [path |-> path, type |-> Ask.type, attribute |-> Ask.attribute,
                    stat |-> Ask.stat, over |-> over, ok |-> ok, of |-> t, seen |-> tables[t]]
  OBVIOUS
<1>1. /\ pc = "stats" /\ Working /\ Working' /\ Top' = Top /\ Ask.type \in {None, t}
      /\ DOMAIN OthersAsked \subseteq DOMAIN scope.asked
      /\ \A k \in DOMAIN OthersAsked : OthersAsked[k] = scope.asked[k]
  BY AskedNext DEF Top, Working
<1>2. /\ StackOK /\ QueriesOK /\ QueryOK /\ ScopeOK /\ WorldOK /\ failures \in Nat /\ failures' \in Nat
  BY TypesAssumption DEF IInv, WorldOK
<1>3. IsPlace(path, t) /\ t \in Types
  BY <1>1, <1>2, InnermostCall DEF IsPlace
<1>4. Grows /\ StackOK' /\ QueriesOK' /\ CollsOK'
  <2>1. (Working' => Working) /\ (pc' = "include" => pc = "include")
    BY <1>1
  <2> QED
    BY <1>2, <2>1, CallsStay
<1>5. StatsOK'
  BY <1>1, <1>4, StatsStay
<1>6. WorldOK'
  BY <1>1, <1>2 DEF WorldOK
<1>7. /\ FiltersOf(path, t)' = FiltersOf(path, t) /\ TestsOf(path, t)' = TestsOf(path, t)
  BY <1>1, <1>2, <1>4, CallStays
<1>8. IsScope(scope) /\ Bindable(scope.query) /\ scope.page = <<>>
  BY <1>2, ScopeIsBindable DEF QueryOK
<1>9. scope.tests = TestsOf(path, t) /\ scope.todo = {}
  BY <1>1, <1>2 DEF ScopeOK
<1>10. IsStat(e)
  <2>1. IsStatValue(e)
    BY <1>0, <1>1 DEF IsStatValue
  <2>2. IsTable(t, tables[t])
    BY <1>2, <1>3 DEF WorldOK
  <2>3. Found = {row.id : row \in Matching(tables[t], TestsOf(path, t))}
    BY <1>9 DEF Found
  <2>4. e.path = path /\ e.of = t /\ e.seen = tables[t] /\ e.over = over /\ e.ok = ok
        /\ (Summarises(e) <=> Summarises(Ask))
    BY <1>0 DEF Summarises
  <2> QED
    BY <1>3, <2>1, <2>2, <2>3, <2>4 DEF IsStat
<1>11. IsStat(e)'
  BY <1>4, <1>10, StatStays
<1>12. /\ scope'.query = query /\ scope'.asked = OthersAsked /\ scope'.stat = <<e>> /\ scope'.todo = scope.todo
       /\ scope'.tests = scope.tests /\ scope'.page = <<>> /\ IsScope(scope')
  <2>1. scope' = [scope EXCEPT !.asked = OthersAsked, !.query = query, !.stat = <<e>>]
    BY <1>0 DEF Valued
  <2> QED
    BY <1>8, <2>1 DEF IsScope
<1>13. Stays' <=> ~ok
  <2>1. e.ok = ok /\ <<e>> # <<>> /\ <<e>>[1] = e
    BY <1>0
  <2> QED
    BY <1>12, <2>1 DEF Stays
<1>14. /\ query.params = scope.query.params /\ query.where = scope.query.where /\ query.having = <<>>
       /\ query.order = scope.query.order /\ query.clauses = scope.query.clauses
       /\ query.owned = scope.query.owned /\ query.select = select
       /\ query = [params |-> query.params, select |-> query.select, where |-> query.where, having |-> query.having,
                   order |-> query.order, clauses |-> query.clauses, owned |-> query.owned]
  <2> HIDE DEF select
  <2>1. query = [scope.query EXCEPT !.select = select]
    BY DEF select
  <2> QED
    BY <1>8, <2>1 DEF Bindable
<1>15. B!Conditions(query) = B!Conditions(scope.query)
  BY <1>8, <1>14 DEF B!Conditions, Bindable
<1>16. QueryOK'
  <2>1. B!Marks(query) = 1..Len(query.params)
    <3>1. B!Marks(query) = B!Marks(scope.query)
      BY <1>15 DEF B!Marks
    <3> QED
      BY <1>8, <1>14, <3>1 DEF Bindable
  <2>2. \A S : "count(*)" \in S => select \in Seq(S)
    BY NoneOrOne
  <2> HIDE DEF select
  <2>3. query \in B!Query
    BY <1>2, <1>14, <2>2 DEF QueryOK, B!Query, B!Aggregates
  <2>4. query.order = <<>> /\ query.clauses = {}
    BY <1>2, <1>14 DEF QueryOK
  <2>5. \A c \in B!Conditions(query) : c.empty => \E test \in scope.tests : test.values = <<>>
    BY <1>2, <1>15 DEF QueryOK
  <2>6. query.select = IF Stays' THEN <<"count(*)">> ELSE <<>>
    BY <1>13, <1>14 DEF select
  <2> QED
    BY <1>12, <1>14, <2>1, <2>3, <2>4, <2>5, <2>6 DEF QueryOK, IsScope
<1>17. ScopeOK'
  <2>1. scope'.tests \cup {TestOf(t, g) : g \in scope'.todo} = TestsOf(path, t)
    BY <1>9, <1>12
  <2>2. /\ scope'.todo = {} /\ DOMAIN scope'.asked \subseteq Nat
        /\ \A k \in DOMAIN scope'.asked : scope'.asked[k].type \in {None, t}
    BY <1>1, <1>2, <1>9, <1>12 DEF ScopeOK
  <2>3. scope'.stat = <<scope'.stat[1]>> /\ scope'.stat[1] = e
    BY <1>12
  <2>4. e.path = path /\ e.of = t
    BY <1>0
  <2>5. Stays' /\ failures' = 0 => Refusable'
    <3>1. Refusable => Refusable'
      BY <1>1, <1>12, <1>15 DEF Refusable
    <3> QED
      BY <1>13, <3>1
  <2>6. IsStat(scope.stat[1])'
    BY <1>11, <2>3
  <2> QED
    BY <1>1, <1>7, <2>1, <2>2, <2>3, <2>4, <2>5, <2>6 DEF ScopeOK
<1>18. CrashOK'
  BY <1>1 DEF CrashOK
<1> QED
  BY <1>4, <1>5, <1>6, <1>16, <1>17, <1>18 DEF IInv

\* Selected again, or nothing selected any more.
LEMMA SelectedAnew ==
    ASSUME Bindable(scope.query), NEW aggregate
    PROVE  /\ B!Reset(scope.query) = [scope.query EXCEPT !.select = <<>>]
           /\ B!Reset(B!WithAggregate(scope.query, aggregate)) = [scope.query EXCEPT !.select = <<>>]
           /\ B!WithAggregate(scope.query, aggregate) = [scope.query EXCEPT !.select = <<aggregate>>]
<1> DEFINE p == scope.query
           one == <<aggregate>>
           none == <<>>
<1>1. DOMAIN p = {"params", "select", "where", "having", "order", "clauses", "owned"}
      /\ p = [x \in DOMAIN p |-> p[x]]
  BY DEF Bindable
<1>2. B!WithAggregate(p, aggregate) = [p EXCEPT !.select = one]
  BY DEF B!WithAggregate
<1>3. /\ B!Reset(p) = [p EXCEPT !.select = none]
      /\ B!Reset(B!WithAggregate(p, aggregate)) = [[p EXCEPT !.select = one] EXCEPT !.select = none]
  BY DEF B!Reset, B!WithAggregate
<1>4. [[p EXCEPT !.select = one] EXCEPT !.select = none] = [p EXCEPT !.select = none]
  <2> HIDE DEF one, none
  <2> QED
    BY <1>1
<1> QED
  BY <1>2, <1>3, <1>4

\* A count ranges over the rows that pass; one that fails stays selected.
LEMMA CountSteps ==
    ASSUME IInv, Count \/ CountFails
    PROVE  IInv'
<1>1. Asking /\ UNCHANGED <<tables, request, stack, pc, colls, stats, writes>>
  BY DEF Count, CountFails
<1>2. QueryOK /\ IsScope(scope) /\ Bindable(scope.query) /\ failures \in 0..MaxFailures /\ MaxFailures \in Nat
  BY ScopeIsBindable, TypesAssumption DEF IInv, WorldOK
<1>3. Counting.query = B!WithAggregate(scope.query, "count(*)")
  BY <1>2 DEF Counting, IsScope
<1>4. Found \subseteq {row.id : row \in tables[Top.type]}
  BY DEF Found, Matching
<1>5. CASE Count
  <2>1. Valued(Found, TRUE, B!Reset(Counting.query)) /\ failures' = failures
    BY <1>5 DEF Count
  <2> DEFINE query == B!Reset(Counting.query)
  <2>2. query = [scope.query EXCEPT !.select = IF TRUE THEN <<>> ELSE <<"count(*)">>]
    BY <1>2, <1>3, SelectedAnew
  <2>3. failures' \in 0..MaxFailures /\ failures <= failures'
    BY <1>2, <2>1
  <2>4. Valued(Found, TRUE, query)
    BY <2>1
  <2> HIDE DEF query
  <2> QED
    BY <1>1, <1>4, <2>2, <2>3, <2>4, ValuedSteps
<1>6. CASE CountFails
  <2>1. Valued({}, FALSE, Counting.query) /\ Fails(Accepted(Counting, Top.type))
    BY <1>6 DEF CountFails
  <2> DEFINE query == Counting.query
  <2>2. query = [scope.query EXCEPT !.select = IF FALSE THEN <<>> ELSE <<"count(*)">>]
    BY <1>2, <1>3, SelectedAnew
  <2>3. failures' \in 0..MaxFailures /\ failures <= failures' /\ (failures' = 0 => Refusable)
    <3>1. CASE ~Accepted(Counting, Top.type) /\ UNCHANGED failures
      <4>1. "count(*)" \in B!Aggregates
        BY DEF B!Aggregates
      <4>2. Refusable
        BY <1>2, <3>1, <4>1, AggregateRefused DEF Counting
      <4> QED
        BY <1>2, <3>1, <4>2
    <3>2. CASE failures < MaxFailures /\ failures' = failures + 1
      BY <1>2, <3>2
    <3> QED
      BY <2>1, <3>1, <3>2 DEF Fails
  <2> HIDE DEF query
  <2> QED
    BY <1>1, <2>1, <2>2, <2>3, ValuedSteps DEF query
<1> QED
  BY <1>5, <1>6

\* So does a sum, or a stat that is none, of one of the rows.
LEMMA MeasureSteps ==
    ASSUME IInv, Measure
    PROVE  IInv'
<1>1. Asking /\ UNCHANGED <<tables, request, stack, pc, colls, stats, writes, failures>>
  BY DEF Measure
<1>2. QueryOK /\ IsScope(scope) /\ Bindable(scope.query) /\ failures \in 0..MaxFailures /\ MaxFailures \in Nat
  BY ScopeIsBindable, TypesAssumption DEF IInv, WorldOK
<1>3. Measuring.query = IF Ask.stat \in Summaries THEN B!WithAggregate(scope.query, "stat") ELSE scope.query
  BY <1>2 DEF Measuring, IsScope
<1>4. Found \subseteq {row.id : row \in tables[Top.type]}
  BY DEF Found, Matching
<1>5. PICK over \in SUBSET Found : Valued(over, TRUE, B!Reset(Measuring.query)) /\ (Summarises(Ask) => over = Found)
  BY DEF Measure, Counts, Summarises
<1> DEFINE query == B!Reset(Measuring.query)
<1>6. query = [scope.query EXCEPT !.select = IF TRUE THEN <<>> ELSE <<"count(*)">>]
  BY <1>2, <1>3, SelectedAnew
<1>7. failures' \in 0..MaxFailures /\ failures <= failures'
  BY <1>1, <1>2
<1>8. Valued(over, TRUE, query) /\ over \subseteq {row.id : row \in tables[Top.type]}
  BY <1>4, <1>5
<1> HIDE DEF query
<1> QED
  BY <1>1, <1>5, <1>6, <1>7, <1>8, ValuedSteps

\* A stat that is refused crashes, for a reason.
LEMMA MeasureCrashesSteps ==
    ASSUME IInv, MeasureCrashes
    PROVE  IInv'
<1>1. /\ Asking /\ pc = "stats" /\ Working /\ pc' = "crashed" /\ ~Working' /\ Top' = Top
      /\ UNCHANGED <<tables, request, stack, scope, colls, stats, writes>>
  BY DEF MeasureCrashes, Asking, Working, Top
<1>2. /\ StackOK /\ QueriesOK /\ QueryOK /\ ScopeOK /\ WorldOK /\ CollsOK /\ request \in Requests
      /\ failures \in 0..MaxFailures /\ MaxFailures \in Nat
  BY TypesAssumption DEF IInv, WorldOK
<1>3. /\ failures' \in 0..MaxFailures /\ failures <= failures'
      /\ \/ failures' > 0 \/ StatCrashes(Ask, Top.type)
         \/ Ask.stat # None /\ ~Accepted(Measuring, Top.type)
  <2>1. CASE Ask.stat = None /\ UNCHANGED failures
    BY <1>2, <2>1 DEF MeasureCrashes, Measures, StatCrashes
  <2>2. CASE Ask.stat # None /\ Fails(Measurable /\ Accepted(Measuring, Top.type))
    <3>1. CASE failures < MaxFailures /\ failures' = failures + 1
      BY <1>2, <3>1
    <3>2. CASE ~Measurable /\ UNCHANGED failures
      BY <1>2, <3>2 DEF Measurable, MeasureCrashes, Measures, StatCrashes
    <3>3. CASE ~Accepted(Measuring, Top.type) /\ UNCHANGED failures
      BY <1>2, <2>2, <3>3
    <3> QED
      BY <2>2, <3>1, <3>2, <3>3 DEF Fails
  <2>3. CASE Ask.stat \notin Summaries /\ Found = {} /\ UNCHANGED failures
    BY <1>2, <2>3 DEF MeasureCrashes, Measures, StatCrashes
  <2> QED
    BY <2>1, <2>2, <2>3 DEF MeasureCrashes
<1>4. Grows /\ StackOK' /\ QueriesOK' /\ CollsOK'
  <2>1. failures' \in Nat /\ (Working' => Working) /\ (pc' = "include" => pc = "include")
    BY <1>1, <1>2, <1>3
  <2> QED
    BY <1>1, <1>3, <2>1, CallsStay
<1>5. StatsOK'
  BY <1>1, <1>4, StatsStay
<1>6. WorldOK'
  BY <1>1, <1>2, <1>3 DEF WorldOK
<1>7. QueryOK'
  BY <1>1, <1>2 DEF QueryOK, Stays
<1>8. ScopeOK'
  BY <1>1 DEF ScopeOK
<1>9. CrashOK'
  <2>1. CASE failures' > 0
    BY <2>1 DEF CrashOK
  <2>2. CASE StatCrashes(Ask, Top.type)
    <3>1. DOMAIN scope'.asked # {} /\ Ask' = Ask /\ Found' = Found
      BY <1>1 DEF Asking, Ask, First, Found
    <3>2. StatCrashes(Ask, Top.type)'
      BY <1>1, <2>2, <3>1 DEF StatCrashes
    <3> QED
      BY <3>1, <3>2 DEF CrashOK
  <2>3. CASE ~Accepted(Measuring, Top.type)
    <3>1. failures > 0 \/ Refusable
      <4>1. CASE Ask.stat \in Summaries
        <5>1. Measuring = [scope EXCEPT !.query = B!WithAggregate(@, "stat")]
          BY <4>1 DEF Measuring
        <5>2. "stat" \in B!Aggregates
          BY DEF B!Aggregates
        <5> QED
          BY <1>2, <2>3, <5>1, <5>2, AggregateRefused
      <4>2. CASE Ask.stat \notin Summaries
        <5>1. Measuring = scope
          BY <1>2, <4>2, ScopeIsBindable DEF Measuring, IsScope
        <5> QED
          BY <1>1, <1>2, <2>3, <5>1, ScopeRefused
      <4> QED
        BY <4>1, <4>2
    <3>3. CASE failures > 0
      BY <1>2, <1>3, <3>3 DEF CrashOK
    <3>4. CASE Refusable
     <4>1. MayBeRefused(Top.path, Top.type)
      <5>1. pc \in {"stats", "rows"}
        BY <1>1
      <5> QED
        BY <1>2, <3>4, <5>1, RefusableForAReason
     <4>2. MayBeRefused(Top.path, Top.type)'
      <5>1. {failures, failures'} \subseteq Nat
        BY <1>2, <1>3
      <5> QED
        BY <1>1, <1>2, <1>3, <1>4, <4>1, <5>1, CallMayBeRefused
     <4> QED
       BY <4>2 DEF CrashOK
    <3> QED
      BY <3>1, <3>3, <3>4
  <2> QED
    BY <1>3, <2>1, <2>2, <2>3
<1> QED
  BY <1>4, <1>5, <1>6, <1>7, <1>8, <1>9 DEF IInv

\* A stat of nothing there is.
LEMMA NoStatSteps ==
    ASSUME IInv, NoStat
    PROVE  IInv'
<1>1. /\ Asking /\ scope' = [scope EXCEPT !.asked = OthersAsked]
      /\ UNCHANGED <<tables, request, stack, pc, colls, stats, writes, failures>>
  BY DEF NoStat
<1>2. /\ pc = "stats" /\ Working /\ Working' /\ Top' = Top
      /\ DOMAIN OthersAsked \subseteq DOMAIN scope.asked
      /\ \A k \in DOMAIN OthersAsked : OthersAsked[k] = scope.asked[k]
  BY <1>1, AskedNext DEF Top, Working
<1>3. /\ StackOK /\ QueriesOK /\ QueryOK /\ ScopeOK /\ WorldOK /\ failures \in Nat
  BY DEF IInv, WorldOK
<1>4. Grows /\ StackOK' /\ QueriesOK' /\ CollsOK'
  <2>1. failures' \in Nat /\ failures <= failures' /\ (Working' => Working) /\ (pc' = "include" => pc = "include")
    BY <1>1, <1>2, <1>3
  <2> QED
    BY <1>1, <2>1, CallsStay
<1>5. StatsOK'
  BY <1>1, <1>2, <1>4, StatsStay
<1>6. WorldOK'
  BY <1>1, <1>3 DEF WorldOK
<1>7. IsScope(scope) /\ scope.page = <<>>
  BY <1>3, ScopeIsBindable DEF QueryOK
<1>8. /\ scope'.query = scope.query /\ scope'.asked = OthersAsked /\ scope'.stat = scope.stat
      /\ scope'.todo = scope.todo /\ scope'.tests = scope.tests /\ scope'.page = <<>> /\ IsScope(scope')
  BY <1>1, <1>7 DEF IsScope
<1>9. Stays' <=> Stays
  BY <1>8 DEF Stays
<1>10. QueryOK'
  BY <1>3, <1>8, <1>9 DEF QueryOK, IsScope
<1>11. ScopeOK'
  <2>1. FiltersOf(Top.path, Top.type)' = FiltersOf(Top.path, Top.type)
        /\ TestsOf(Top.path, Top.type)' = TestsOf(Top.path, Top.type)
    BY <1>2, <1>3, <1>4, CallStays
  <2>2. Refusable' <=> Refusable
    BY <1>2, <1>8 DEF Refusable
  <2>3. DOMAIN scope'.asked \subseteq Nat /\ \A k \in DOMAIN scope'.asked : scope'.asked[k].type \in {None, Top.type}
    BY <1>2, <1>3, <1>8 DEF ScopeOK
  <2>4. scope.stat # <<>> => IsStat(scope.stat[1])'
    <3>1. PICK e : e = scope.stat[1]
      OBVIOUS
    <3>2. scope.stat # <<>> => IsStat(e)'
      BY <1>2, <1>3, <1>4, <3>1, StatStays DEF ScopeOK
    <3> QED
      BY <1>8, <3>1, <3>2
  <2> QED
    BY <1>1, <1>2, <1>3, <1>8, <1>9, <2>1, <2>2, <2>3, <2>4 DEF ScopeOK
<1>12. CrashOK'
  BY <1>1, <1>2 DEF CrashOK
<1> QED
  BY <1>4, <1>5, <1>6, <1>10, <1>11, <1>12 DEF IInv

\* None or one more behind the others.
Continued(r, s, x) ==
    /\ IsSeq(r) /\ DOMAIN s \subseteq DOMAIN r /\ \A k \in DOMAIN s : r[k] = s[k]
    /\ \A k \in DOMAIN r \ DOMAIN s : k = Len(s) + 1 /\ x # <<>> /\ r[k] = x[1]
    /\ x # <<>> => Len(s) + 1 \in DOMAIN r /\ r[Len(s) + 1] = x[1]

\* A sequence continued by one, or by none.
LEMMA OneMore ==
    ASSUME NEW s, IsSeq(s), NEW x, x = <<>> \/ x = <<x[1]>>, NEW r, r = s \o x
    PROVE  Continued(r, s, x)
<1>1. s \in Seq(Range(s)) /\ Len(s) \in Nat /\ DOMAIN s = 1..Len(s)
  BY DEF IsSeq
<1>2. CASE x = <<>>
  <2>1. \A S : \A q \in Seq(S) : q \o <<>> = q
    OBVIOUS
  <2>2. r = s
    BY <1>1, <1>2, <2>1
  <2> QED
    BY <1>1, <1>2, <2>2 DEF Continued, IsSeq
<1>3. CASE x = <<x[1]>> /\ x # <<>>
  <2> DEFINE T == Range(s) \cup {x[1]}
             y == x[1]
  <2>1. s \in Seq(T) /\ y \in T
    BY <1>1
  <2>2. r = s \o <<y>>
    BY <1>3
  <2> HIDE DEF T, y
  <2>3. s \o <<y>> = Append(s, y)
    BY <2>1
  <2>4. /\ Append(s, y) \in Seq(T) /\ DOMAIN Append(s, y) = 1..Len(s) + 1
        /\ \A k \in 1..Len(s) : Append(s, y)[k] = s[k]
        /\ Append(s, y)[Len(s) + 1] = y
    BY <2>1
  <2>5. /\ IsSeq(r) /\ DOMAIN r = 1..Len(s) + 1 /\ \A k \in 1..Len(s) : r[k] = s[k]
        /\ r[Len(s) + 1] = y
    BY <2>2, <2>3, <2>4, SequenceOf
  <2>6. /\ (1..Len(s) + 1) \ (1..Len(s)) = {Len(s) + 1}
        /\ Len(s) + 1 \in 1..Len(s) + 1 /\ 1..Len(s) \subseteq 1..Len(s) + 1
    BY <1>1
  <2> QED
    BY <1>1, <1>3, <2>5, <2>6 DEF y, Continued
<1> QED
  BY <1>2, <1>3

\* The last stat is put to those made, the first of its place.
LEMMA StatsMadeSteps ==
    ASSUME IInv, StatsMade
    PROVE  IInv'
<1> DEFINE path == Top.path
           t == Top.type
<1>1. /\ pc = "stats" /\ pc' = "rows" /\ Working /\ Working' /\ Top' = Top /\ stats' = stats \o scope.stat
      /\ DOMAIN scope.asked = {} /\ UNCHANGED <<tables, request, stack, scope, colls, writes, failures>>
  BY DEF StatsMade, Working, Top
<1>2. /\ StackOK /\ QueriesOK /\ QueryOK /\ ScopeOK /\ WorldOK /\ CollsOK /\ failures \in Nat
      /\ path \notin DOMAIN colls
  BY <1>1 DEF IInv, WorldOK, StackOK
<1>3. /\ IsSeq(stats) /\ \A k \in DOMAIN stats :
        /\ IsStat(stats[k]) /\ stats[k].path \in DOMAIN colls /\ colls[stats[k].path].type = stats[k].of
      /\ \A j, k \in DOMAIN stats : stats[j].path = stats[k].path => j = k
  BY <1>1 DEF IInv, StatsOK
<1>4. scope.stat # <<>> =>
        /\ scope.stat = <<scope.stat[1]>> /\ IsStat(scope.stat[1])
        /\ scope.stat[1].path = path /\ scope.stat[1].of = t
  BY <1>1, <1>2 DEF ScopeOK
<1>5. PICK made : made = stats'
  OBVIOUS
<1>6. /\ IsSeq(made) /\ DOMAIN stats \subseteq DOMAIN made /\ \A k \in DOMAIN stats : made[k] = stats[k]
      /\ \A k \in DOMAIN made \ DOMAIN stats : k = Len(stats) + 1 /\ scope.stat # <<>> /\ made[k] = scope.stat[1]
      /\ scope.stat # <<>> => Len(stats) + 1 \in DOMAIN made /\ made[Len(stats) + 1] = scope.stat[1]
  <2>1. made = stats \o scope.stat /\ (scope.stat = <<>> \/ scope.stat = <<scope.stat[1]>>)
    BY <1>1, <1>4, <1>5
  <2>2. PICK x : x = scope.stat
    OBVIOUS
  <2>3. Continued(made, stats, x)
    <3>1. made = stats \o x /\ (x = <<>> \/ x = <<x[1]>>) /\ IsSeq(stats)
      BY <1>3, <2>1, <2>2
    <3> QED
      BY <3>1, OneMore
  <2> QED
    BY <2>2, <2>3 DEF Continued
<1>7. Grows /\ StackOK'
  <2>1. Grows
    BY <1>1 DEF Grows
  <2> QED
    BY <1>1, <1>2, <2>1, StackStays
<1>8. QueriesOK' /\ WorldOK' /\ QueryOK'
  <2>1. Params' = Params
    BY <1>1 DEF Params
  <2>2. QueriesOK'
    <3> USE DEF Whole
    <3>1. QueriesOK /\ stack' = stack
      BY <1>1, <1>2
    <3> QED
      BY <2>1, <3>1 DEF QueriesOK, IsCopy
  <2> QED
    BY <1>1, <1>2, <2>2 DEF WorldOK, QueryOK, Stays
<1>9. ASSUME NEW e, IsStat(e)
      PROVE  IsStat(e)'
  BY <1>7, <1>9, StatStays
<1>10. ScopeOK'
  <2>1. FiltersOf(Top.path, Top.type)' = FiltersOf(Top.path, Top.type)
        /\ TestsOf(Top.path, Top.type)' = TestsOf(Top.path, Top.type)
    BY <1>1, <1>2, <1>7, CallStays
  <2>2. scope.stat # <<>> => IsStat(scope.stat[1])'
    <3>1. PICK e : e = scope.stat[1]
      OBVIOUS
    <3>2. scope.stat # <<>> => IsStat(e)'
      BY <1>4, <1>9, <3>1
    <3> QED
      BY <1>1, <3>1, <3>2
  <2>3. (Refusable' <=> Refusable) /\ (Stays' <=> Stays)
    BY <1>1 DEF Refusable, Stays
  <2> QED
    BY <1>1, <1>2, <2>1, <2>2, <2>3 DEF ScopeOK
<1>11. CollsOK'
  <2> SUFFICES ASSUME NEW p \in DOMAIN colls
               PROVE  IsAnswer(p)'
    BY <1>1 DEF CollsOK
  <2>1. CountStays(p)' <=> CountStays(p)
    <3>1. CountStays(p)' <=> \E k \in DOMAIN made : made[k].path = p /\ ~made[k].ok
      BY <1>5 DEF CountStays
    <3>2. \A k \in DOMAIN made \ DOMAIN stats : made[k].path # p
      BY <1>2, <1>4, <1>6
    <3> QED
      BY <1>6, <3>1, <3>2 DEF CountStays
  <2>2. IsAnswer(p) /\ {failures, failures'} \subseteq Nat /\ failures <= failures'
    BY <1>1, <1>2 DEF CollsOK
  <2> QED
    BY <1>7, <2>1, <2>2, AnswerStays
<1>12. StatsOK'
  <2>1. \A k \in DOMAIN made : IsStat(made[k])'
    <3> SUFFICES ASSUME NEW k \in DOMAIN made
                 PROVE  IsStat(made[k])'
      OBVIOUS
    <3>1. PICK e : e = made[k]
      OBVIOUS
    <3>2. IsStat(e)
      BY <1>3, <1>4, <1>6, <3>1
    <3>3. IsStat(e)'
      BY <1>9, <3>2
    <3> QED
      BY <3>1, <3>3
  <2>2. \A k \in DOMAIN made :
          IF made[k].path \in DOMAIN colls THEN colls[made[k].path].type = made[k].of
          ELSE made[k].path = path /\ made[k].of = t
    <3> SUFFICES ASSUME NEW k \in DOMAIN made
                 PROVE  IF made[k].path \in DOMAIN colls THEN colls[made[k].path].type = made[k].of
                        ELSE made[k].path = path /\ made[k].of = t
      OBVIOUS
    <3>1. CASE k \in DOMAIN stats
      BY <1>3, <1>6, <3>1
    <3>2. CASE k \notin DOMAIN stats
      BY <1>2, <1>4, <1>6, <3>2
    <3> QED
      BY <3>1, <3>2
  <2>3. \A j, k \in DOMAIN made : made[j].path = made[k].path => j = k
    BY <1>2, <1>3, <1>4, <1>6
  <2>4. (\E k \in DOMAIN made : made[k].path = path /\ ~made[k].ok) <=> Stays
    BY <1>2, <1>3, <1>4, <1>6 DEF Stays
  <2>5. CountStays(path)' <=> Stays'
    BY <1>1, <1>5, <2>4 DEF CountStays, Stays
  <2> QED
    BY <1>1, <1>5, <1>6, <2>1, <2>2, <2>3, <2>5 DEF StatsOK
<1>13. CrashOK'
  BY <1>1 DEF CrashOK
<1> QED
  BY <1>7, <1>8, <1>10, <1>11, <1>12, <1>13 DEF IInv

\* Rows come, or none, and the collection is made of them.
LEMMA MadeSteps ==
    ASSUME IInv, pc = "rows", NEW path, path = Top.path, NEW t, t = Top.type,
           NEW rows, NEW ok \in BOOLEAN, Made(rows, ok), NEW made, made = Instances(rows),
           failures' \in 0..MaxFailures, failures <= failures',
           IsFiniteSet(made), \A r \in made : r.id \in Nat /\ IsInstance(t, r),
           ~ok => made = {} /\ (failures' > 0 \/ MayBeRefused(path, t)),
           Stays => (\A r \in made : DOMAIN r.cells = {}) /\ (failures' = 0 => made = {}),
           NEW all, all = InstancesOf(t, Matching(tables[t], TestsOf(path, t))),
           ok /\ ~Stays => /\ ColumnsAt(t) \subseteq ColumnsOf(t) /\ made \subseteq all
                           /\ ~Finds(path) => Cardinality(made) = PageSize(Cardinality(all), PageOf(Params))
    PROVE  IInv'
<1>1. /\ UNCHANGED <<tables, request, stack, scope, stats, writes>> /\ pc' \in {"done", "include"}
      /\ colls' = [p \in DOMAIN colls \cup {path} |->
                     IF p = path THEN [type |-> t, rows |-> made, ok |-> ok, seen |-> tables[t]] ELSE colls[p]]
      /\ Working /\ ~Working' /\ Top' = Top
  BY DEF Made, Working, Top
<1>2. /\ StackOK /\ QueriesOK /\ QueryOK /\ ScopeOK /\ WorldOK /\ CollsOK /\ failures \in Nat /\ failures' \in Nat
      /\ path \notin DOMAIN colls /\ IsSeq(stack)
  <2>1. StackOK /\ QueriesOK /\ QueryOK /\ ScopeOK /\ WorldOK /\ CollsOK
    BY DEF IInv
  <2>2. failures \in Nat /\ failures' \in Nat
    BY <2>1, TypesAssumption DEF WorldOK
  <2>3. path \notin DOMAIN colls /\ IsSeq(stack)
    BY <1>1, <2>1 DEF StackOK
  <2> QED
    BY <2>1, <2>2, <2>3
<1>3. /\ IsPlace(path, t) /\ t \in Types /\ Len(path) = Len(stack) - 1 /\ Len(stack) \in Nat \ {0}
      /\ Len(stack) \in DOMAIN stack /\ Top = stack[Len(stack)] /\ path \in Seq(Nat)
  BY <1>1, <1>2, InnermostCall DEF IsPlace
<1>4. /\ Grows /\ DOMAIN colls' = DOMAIN colls \cup {path}
      /\ colls'[path].type = t /\ colls'[path].rows = made /\ colls'[path].ok = ok /\ colls'[path].seen = tables[t]
  BY <1>1, <1>2 DEF Grows
<1>5. StackOK'
  <2> SUFFICES ASSUME NEW k \in DOMAIN stack
               PROVE  /\ IsPlace(stack[k].path, stack[k].type)'
                      /\ \A i \in Nat : i >= stack[k].next => Append(stack[k].path, i) \notin DOMAIN colls'
                      /\ stack[k].path \in DOMAIN colls' => colls'[stack[k].path].type = stack[k].type
    <3>1. stack' = stack /\ ~Working' /\ (pc' = "include" => stack' # <<>> /\ Top'.path \in DOMAIN colls')
      BY <1>1, <1>2, <1>4 DEF StackOK
    <3> QED
      BY <1>2, <3>1 DEF StackOK
  <2>1. PICK p, u : p = stack[k].path /\ u = stack[k].type
    OBVIOUS
  <2>2. /\ IsPlace(p, u) /\ Len(p) = k - 1 /\ k \in Nat \ {0} /\ p \in Seq(Nat)
        /\ \A i \in Nat : i >= stack[k].next => Append(p, i) \notin DOMAIN colls
        /\ p \in DOMAIN colls => colls[p].type = u
    <3>1. k \in Nat \ {0}
      BY <1>2 DEF IsSeq
    <3> QED
      BY <1>2, <2>1, <3>1 DEF StackOK, IsPlace
  <2>3. IsPlace(p, u)'
    BY <1>4, <2>2, PlaceStays
  <2>4. ASSUME NEW i \in Nat, i >= stack[k].next
        PROVE  Append(p, i) # path
    <3> SUFFICES ASSUME Append(p, i) = path
                 PROVE  FALSE
      OBVIOUS
    <3>1. Len(Append(p, i)) = k /\ Append(p, i)[k] = i
      BY <2>2
    <3>2. k = Len(stack) - 1 /\ path[k] = i
      BY <1>3, <3>1
    <3>3. Len(stack) > 1 /\ stack[Len(stack)].path = path
      BY <1>3, <2>2, <3>2
    <3>4. path[Len(stack) - 1] < stack[Len(stack) - 1].next
      BY <1>2, <1>3, <3>3 DEF StackOK
    <3>5. stack[k].next \in Nat
      BY <1>2 DEF StackOK
    <3> QED
      BY <2>4, <3>2, <3>4, <3>5
  <2>5. p = path => u = t
    <3>1. p = path => k = Len(stack)
      BY <1>3, <2>2
    <3> QED
      BY <1>3, <2>1, <3>1
  <2>6. p \in DOMAIN colls' => colls'[p].type = u
    BY <1>2, <1>4, <2>2, <2>5 DEF Grows
  <2> QED
    BY <1>1, <1>4, <2>1, <2>2, <2>3, <2>4, <2>6
<1>6. QueriesOK' /\ WorldOK' /\ QueryOK' /\ ScopeOK' /\ CrashOK'
  <2>1. Params' = Params
    BY <1>1 DEF Params
  <2>2. QueriesOK'
    <3> USE DEF Whole
    <3>1. QueriesOK /\ stack' = stack
      BY <1>1, <1>2
    <3> QED
      BY <2>1, <3>1 DEF QueriesOK, IsCopy
  <2>3. WorldOK' /\ QueryOK'
    BY <1>1, <1>2 DEF WorldOK, QueryOK, Stays
  <2> QED
    BY <1>1, <2>2, <2>3 DEF ScopeOK, CrashOK
<1>7. \A p : CountStays(p)' <=> CountStays(p)
  BY <1>1 DEF CountStays
<1>8. CountStays(path) <=> Stays
  BY DEF IInv, StatsOK
<1>9. IsAnswer(path)'
  <2>1. /\ IsPlace(path, t)' /\ Params' = Params /\ TestsOf(path, t)' = TestsOf(path, t)
        /\ Finds(path)' <=> Finds(path)
    BY <1>3, <1>4, PlaceStays
  <2>2. ~ok => MayBeRefused(path, t)'
    <3>1. CASE failures' > 0
      BY <3>1 DEF MayBeRefused
    <3>2. CASE MayBeRefused(path, t)
      <4>1. {failures, failures'} \subseteq Nat
        BY <1>2
      <4> QED
        BY <1>3, <1>4, <3>2, <4>1, ReasonStays
    <3> QED
      BY <3>1, <3>2
  <2>3. ColumnsAt(t)' = ColumnsAt(t)
    BY <2>1 DEF ColumnsAt
  <2>4. PageOf(Params)' = PageOf(Params)
    BY <2>1
  <2>5. AllAt(path)' = all
    <3>1. \A row : InstanceAt(t, row)' = InstanceAt(t, row)
      BY <2>3 DEF InstanceAt
    <3>2. AllAt(path)' = {InstanceAt(t, row)' : row \in Matching(tables[t], TestsOf(path, t))}
      BY <1>4, <2>1 DEF AllAt
    <3> QED
      BY <3>1, <3>2 DEF InstancesOf
  <2>6. IsTable(t, tables[t])
    BY <1>2, <1>3 DEF WorldOK
  <2>7. PICK c : c = colls'[path]
    OBVIOUS
  <2>8. c.type = t /\ c.rows = made /\ c.ok = ok /\ c.seen = tables[t]
    BY <1>4, <2>7
  <2>9. CountStays(path)' <=> Stays
    BY <1>7, <1>8
  <2>10. /\ IsPlace(path, c.type)' /\ c.ok \in BOOLEAN /\ IsTable(c.type, c.seen) /\ IsFiniteSet(c.rows)
         /\ \A r \in c.rows : r.id \in Nat /\ IsInstance(c.type, r)
         /\ ~c.ok => c.rows = {} /\ MayBeRefused(path, c.type)'
    BY <2>1, <2>2, <2>6, <2>8
  <2> QED
    BY <2>1, <2>3, <2>4, <2>5, <2>7, <2>8, <2>9, <2>10 DEF IsAnswer
<1>10. CollsOK'
  <2> SUFFICES ASSUME NEW p \in DOMAIN colls
               PROVE  IsAnswer(p)'
    BY <1>4, <1>9 DEF CollsOK
  <2>1. IsAnswer(p) /\ {failures, failures'} \subseteq Nat
    BY <1>2 DEF CollsOK
  <2> QED
    BY <1>4, <1>7, <2>1, AnswerStays
<1>11. StatsOK'
  <2>1. IsSeq(stats) /\ \A k \in DOMAIN stats : /\ IsStat(stats[k])
        /\ IF stats[k].path \in DOMAIN colls THEN colls[stats[k].path].type = stats[k].of
           ELSE stats[k].path = path /\ stats[k].of = t
    BY DEF IInv, StatsOK
  <2>2. \A k \in DOMAIN stats : IsStat(stats[k])'
    <3> SUFFICES ASSUME NEW k \in DOMAIN stats
                 PROVE  IsStat(stats[k])'
      OBVIOUS
    <3>1. PICK e : e = stats[k]
      OBVIOUS
    <3>2. IsStat(e)'
      BY <1>4, <2>1, <3>1, StatStays
    <3> QED
      BY <1>1, <3>1, <3>2
  <2>3. \A k \in DOMAIN stats : stats[k].path \in DOMAIN colls' /\ colls'[stats[k].path].type = stats[k].of
    BY <1>4, <2>1 DEF Grows
  <2>4. \A j, k \in DOMAIN stats : stats[j].path = stats[k].path => j = k
    BY DEF IInv, StatsOK
  <2> QED
    BY <1>1, <2>1, <2>2, <2>3, <2>4 DEF StatsOK
<1> QED
  BY <1>5, <1>6, <1>10, <1>11 DEF IInv

\* What a statement for rows selects, if no count stayed.
LEMMA RowsSelect ==
    ASSUME request \in Requests, StackOK, QueriesOK, QueryOK, ScopeOK, pc = "rows", ~Stays,
           NEW t, t = Top.type, NEW q, q = Statement.query
    PROVE  /\ ~Aggregated(q) /\ Selected(q, t) = ColumnsAt(t)
           /\ ColumnsAt(t) \subseteq ColumnsOf(t) \cup Range(q.select)
<1>1. t \in Types
  <2>1. Working
    BY DEF Working
  <2> QED
    BY <2>1, InnermostCall DEF IsPlace
<1>2. scope.query.select = <<>>
  BY DEF QueryOK
<1>3. CASE DOMAIN Under(Params, <<"fields">>) = {}
  <2>1. q.select = <<>>
    BY <1>2, <1>3, RowsStatement
  <2>2. Selected(q, t) = ColumnsOf(t) \ {"id"} /\ ColumnsAt(t) = ColumnsOf(t) \ {"id"}
    BY <1>3, <2>1 DEF Selected, ColumnsAt
  <2> QED
    BY <2>1, <2>2 DEF Aggregated
<1>4. CASE DOMAIN Under(Params, <<"fields">>) # {}
  <2> DEFINE names == Names(Params, t)
  <2>1. IsSeq(names) /\ Len(names) > 0 /\ names[1] = "id"
    BY <1>1, NamesAre
  <2>2. q.select = <<>> \o names
    BY <1>2, <1>4, RowsStatement
  <2> HIDE DEF names
  <2>3. q.select = names
    <3>1. \A S : \A s \in Seq(S) : <<>> \o s = s
      OBVIOUS
    <3> QED
      BY <2>1, <2>2, <3>1 DEF IsSeq
  <2>4. names # <<>>
    BY <2>1, NotEmpty DEF IsSeq
  <2>5. Selected(q, t) = Range(names) \ {"id"} /\ ColumnsAt(t) = Range(names) \ {"id"}
    BY <1>4, <2>3, <2>4 DEF Selected, ColumnsAt, names
  <2>6. ~Aggregated(q)
    BY <2>1, <2>3 DEF Aggregated, B!Aggregates
  <2> QED
    BY <2>3, <2>5, <2>6
<1> QED
  BY <1>3, <1>4

\* A row as an instance has its cells.
LEMMA InstanceOfRow ==
    ASSUME NEW t, NEW row \in Row(t), ColumnsAt(t) \subseteq ColumnsOf(t), NEW r, r = InstanceAt(t, row)
    PROVE  r.id \in Nat /\ r.id = row.id /\ IsInstance(t, r)
<1>1. row \in [ColumnsOf(t) -> Cell] /\ row.id \in Nat \ {0}
  BY DEF Row
<1>2. r.id = row.id /\ DOMAIN r.cells = ColumnsAt(t) /\ \A c \in ColumnsAt(t) : r.cells[c] = row[c]
  BY DEF InstanceAt
<1>3. r.id \in Nat /\ r.id \in Cell
  BY <1>1, <1>2 DEF Cell
<1> QED
  BY <1>1, <1>2, <1>3 DEF IsInstance

\* The id that find asks for is one, if its statement is not refused.
LEMMA IdAsked ==
    ASSUME request \in Requests, StackOK, QueriesOK, QueryOK, ScopeOK, pc = "rows",
           Accepted(Statement, Top.type), Finds(Top.path)
    PROVE  /\ request.id \in Nat
           /\ \A row : row.id \in Nat /\ Passes(row, IdTest) => row.id = request.id
<1> DEFINE t == Top.type
<1>1. t \in Types
  <2>1. Working
    BY DEF Working
  <2> QED
    BY <2>1, InnermostCall DEF IsPlace
<1>2. IdTest \in Statement.tests
  BY RowsStatement
<1>3. KindOf(t, "id") # "string" /\ IdTest.column = "id" /\ Range(IdTest.values) = {request.id} /\ IdTest.op = "eq"
  <2>1. KindOf(t, "id") = "integer"
    BY <1>1, TypesAssumption DEF KindOf
  <2>2. \A x : Range(<<x>>) = {x}
    BY DEF Range
  <2> QED
    BY <2>1, <2>2 DEF IdTest
<1>4. request.id # Blank
  BY <1>2, <1>3 DEF Accepted
<1>5. request.id \in Nat
  BY <1>4, RequestsAssumption DEF Cell
<1>6. ASSUME NEW row, Passes(row, IdTest)
      PROVE  row.id = request.id
  BY <1>3, <1>6 DEF Passes, Compare, Negations
<1> QED
  BY <1>5, <1>6

\* The rows are instances of rows that pass, as many as a page has.
LEMMA RunRowsSteps ==
    ASSUME IInv, RunRows
    PROVE  IInv'
<1> DEFINE q == Statement.query
<1>1. pc = "rows" /\ Accepted(Statement, Top.type) /\ failures' = failures /\ Working
  BY DEF RunRows, Working
<1>2. PICK rows \in Answers(Statement, Top.type) : Made(rows, TRUE)
  BY DEF RunRows
<1>3. /\ StackOK /\ QueriesOK /\ QueryOK /\ ScopeOK /\ WorldOK /\ CollsOK /\ request \in Requests
      /\ failures \in 0..MaxFailures /\ MaxFailures \in Nat
  BY TypesAssumption DEF IInv, WorldOK
<1>4. PICK path, t, made : path = Top.path /\ t = Top.type /\ made = Instances(rows)
  OBVIOUS
<1>5. IsPlace(path, t) /\ t \in Types /\ IsTable(t, tables[t])
  BY <1>1, <1>3, <1>4, InnermostCall DEF IsPlace, WorldOK
<1>6. Statement.tests = TestsOf(path, t) \cup (IF Finds(path) THEN {IdTest} ELSE {}) /\ Statement.page = PageOf(Params)
  BY <1>1, <1>3, <1>4, RowsStatement
<1>7. Finds(path) => /\ request.id \in Nat
                     /\ \A row : row.id \in Nat /\ Passes(row, IdTest) => row.id = request.id
  BY <1>1, <1>3, <1>4, IdAsked
<1> DEFINE found == Matching(tables[t], Statement.tests)
           chosen == IF Aggregated(q) THEN {CountRow(Cardinality(found))}
                     ELSE {InstanceOf(q, t, row) : row \in found}
<1>8. rows \subseteq chosen /\ Cardinality(rows) = PageSize(Cardinality(chosen), Statement.page)
  BY <1>2, <1>4 DEF Answers, kSubset
<1>9. found \subseteq tables[t] /\ IsFiniteSet(found) /\ \A a, b \in found : a.id = b.id => a = b
  <2>1. found \in SUBSET tables[t]
    BY DEF Matching
  <2> HIDE DEF found
  <2> QED
    BY <1>5, <2>1, FS_Subset DEF IsTable
<1> DEFINE all == InstancesOf(t, Matching(tables[t], TestsOf(path, t)))
<1>10. CASE Stays
  <2>1. Aggregated(q)
    <3>1. scope.query.select = <<"count(*)">> /\ "count(*)" \in B!Aggregates
      BY <1>3, <1>10 DEF QueryOK, B!Aggregates
    <3>2. CASE DOMAIN Under(Params, <<"fields">>) = {}
      <4>1. q.select = <<"count(*)">>
        BY <1>1, <1>3, <3>1, <3>2, RowsStatement
      <4>2. \A x : <<x>> # <<>> /\ <<x>>[1] = x
        OBVIOUS
      <4> QED
        BY <3>1, <4>1, <4>2 DEF Aggregated
    <3>3. CASE DOMAIN Under(Params, <<"fields">>) # {}
      <4> DEFINE names == Names(Params, t)
                 one == <<"count(*)">>
      <4>1. q.select = one \o names
        BY <1>1, <1>3, <1>4, <3>1, <3>3, RowsStatement
      <4>2. IsSeq(names) /\ IsSeq(one) /\ Len(one) = 1 /\ one[1] = "count(*)"
        <5>1. IsSeq(names)
          BY <1>3, <1>5, NamesAre
        <5>2. one \in Seq({"count(*)"}) /\ Len(one) = 1 /\ one[1] = "count(*)"
          OBVIOUS
        <5> HIDE DEF one
        <5> QED
          BY <5>1, <5>2, SequenceOf
      <4> HIDE DEF names, one
      <4>3. /\ IsSeq(one \o names) /\ Len(one \o names) = Len(one) + Len(names) /\ Len(names) \in Nat
            /\ \A k \in 1..Len(one) : (one \o names)[k] = one[k]
        BY <4>2, Together
      <4>4. (one \o names)[1] = "count(*)" /\ Len(one \o names) # 0
        BY <4>2, <4>3
      <4>5. one \o names # <<>>
        BY <4>3, <4>4, NotEmpty DEF IsSeq
      <4> QED
        BY <3>1, <4>1, <4>4, <4>5 DEF Aggregated
    <3> QED
      BY <3>2, <3>3
  <2>2. rows \subseteq {CountRow(Cardinality(found))} /\ Cardinality(found) \in Nat
    BY <1>8, <1>9, <2>1, FS_CardinalityType
  <2>3. \A r \in made : r.id \in Nat /\ IsInstance(t, r) /\ DOMAIN r.cells = {}
    <3>1. \A n : CountRow(n).id = n /\ CountRow(n).cells = <<>> /\ DOMAIN <<>> = {}
      BY DEF CountRow
    <3>2. \A n : [CountRow(n) EXCEPT !.id = request.id].id = request.id
                 /\ [CountRow(n) EXCEPT !.id = request.id].cells = <<>>
      BY DEF CountRow
    <3>3. \A r \in made : r.id \in Nat /\ DOMAIN r.cells = {}
      <4> DEFINE c == CountRow(Cardinality(found))
      <4>1. c.id \in Nat /\ DOMAIN c.cells = {}
        BY <2>2, <3>1
      <4>2. [c EXCEPT !.id = request.id].id = request.id /\ DOMAIN [c EXCEPT !.id = request.id].cells = {}
        BY <3>1, <3>2
      <4>3. rows \subseteq {c}
        BY <2>2
      <4> HIDE DEF c
      <4>4. CASE Finds(path)
        <5>1. made = {[r EXCEPT !.id = request.id] : r \in rows}
          BY <1>4, <4>4 DEF Instances
        <5> QED
          BY <1>7, <4>2, <4>3, <4>4, <5>1
      <4>5. CASE ~Finds(path)
        BY <1>4, <4>1, <4>3, <4>5 DEF Instances
      <4> QED
        BY <4>4, <4>5
    <3> QED
      BY <3>3 DEF IsInstance, Cell
  <2>4. IsFiniteSet(made)
    <3> DEFINE n == Cardinality(found)
               one == {CountRow(n)}
               other == {[CountRow(n) EXCEPT !.id = request.id]}
    <3>1. made \in SUBSET one \/ made \in SUBSET other
      BY <1>4, <2>2 DEF Instances
    <3>2. IsFiniteSet(one) /\ IsFiniteSet(other)
      BY FS_Singleton
    <3> QED
      BY <3>1, <3>2, FS_Subset
  <2>5. failures # 0
    <3> SUFFICES ASSUME failures = 0
                 PROVE  FALSE
      OBVIOUS
    <3>1. Refusable
      BY <1>1, <1>3, <1>10 DEF ScopeOK
    <3>2. scope.tests = TestsOf(path, t)
      BY <1>1, <1>3, <1>4 DEF ScopeOK
    <3>3. CASE \E c \in B!Conditions(scope.query) : c.empty
      <4>1. \E c \in B!Conditions(q) : c.empty
        BY <1>1, <1>3, <3>3, RowsStatement
      <4> QED
        BY <1>1, <4>1 DEF Accepted, B!Acceptable
    <3>4. CASE \E test \in scope.tests : KindOf(t, test.column) # "string" /\ Blank \in Range(test.values)
      BY <1>1, <1>4, <1>6, <3>2, <3>4 DEF Accepted
    <3> QED
      BY <1>4, <3>1, <3>3, <3>4 DEF Refusable
  <2>6. failures' \in 0..MaxFailures /\ failures <= failures' /\ failures' # 0
    BY <1>1, <1>3, <2>5
  <2> HIDE DEF q, found, chosen, all
  <2>7. PICK every : every = all
    OBVIOUS
  <2> QED
    BY <1>1, <1>2, <1>4, <1>10, <2>3, <2>4, <2>6, <2>7, MadeSteps DEF all
<1>11. CASE ~Stays
  <2>1. ~Aggregated(q) /\ Selected(q, t) = ColumnsAt(t) /\ ColumnsAt(t) \subseteq ColumnsOf(t) \cup Range(q.select)
    <3> HIDE DEF q
    <3> QED
      BY <1>1, <1>3, <1>4, <1>11, RowsSelect DEF q
  <2>2. ColumnsAt(t) \subseteq ColumnsOf(t)
    BY <1>1, <1>4, <2>1 DEF Accepted
  <2>3. chosen = InstancesOf(t, found)
    BY <2>1 DEF InstancesOf, InstanceOf, InstanceAt
  <2>4. /\ rows \subseteq InstancesOf(t, found)
        /\ Cardinality(rows) = PageSize(Cardinality(InstancesOf(t, found)), PageOf(Params))
    BY <1>6, <1>8, <2>3
  <2>5. IsFiniteSet(InstancesOf(t, found))
    <3> HIDE DEF found
    <3> QED
      BY <1>9, AsManyIds
  <2>6. \A r \in rows : \E row \in found : r = InstanceAt(t, row) /\ row \in Row(t)
    BY <1>5, <1>9, <2>4 DEF InstancesOf, IsTable
  <2>7. made = rows
    <3>1. CASE ~Finds(path)
      BY <1>4, <3>1 DEF Instances
    <3>2. CASE Finds(path)
      <4>1. ASSUME NEW r \in rows
            PROVE  [r EXCEPT !.id = request.id] = r
        <5>1. PICK row \in found : r = InstanceAt(t, row) /\ row \in Row(t)
          BY <2>6
        <5>2. Passes(row, IdTest)
          BY <1>6, <3>2 DEF Matching
        <5>3. row.id = request.id
          BY <1>7, <3>2, <5>1, <5>2 DEF Row
        <5>4. r = [id |-> request.id, cells |-> r.cells]
          BY <5>1, <5>3 DEF InstanceAt
        <5> QED
          BY <5>4
      <4>2. made = {[r EXCEPT !.id = request.id] : r \in rows}
        BY <1>4, <3>2 DEF Instances
      <4> QED
        BY <4>1, <4>2
    <3> QED
      BY <3>1, <3>2
  <2>8. \A r \in made : r.id \in Nat /\ IsInstance(t, r)
    BY <2>2, <2>6, <2>7, InstanceOfRow
  <2>9. IsFiniteSet(made)
    <3>1. made \in SUBSET InstancesOf(t, found)
      BY <2>4, <2>7
    <3> QED
      BY <2>5, <3>1, FS_Subset
  <2>10. made \subseteq all
    <3>1. found \subseteq Matching(tables[t], TestsOf(path, t))
      BY <1>6 DEF Matching
    <3> QED
      BY <2>4, <2>7, <3>1 DEF InstancesOf
  <2>11. ~Finds(path) => Cardinality(made) = PageSize(Cardinality(all), PageOf(Params))
    <3>1. ~Finds(path) => found = Matching(tables[t], TestsOf(path, t))
      BY <1>6
    <3> HIDE DEF found
    <3> QED
      BY <2>4, <2>7, <3>1
  <2>12. failures' \in 0..MaxFailures /\ failures <= failures'
    BY <1>1, <1>3
  <2> HIDE DEF q, found, chosen, all
  <2>13. PICK every : every = all
    OBVIOUS
  <2> QED
    BY <1>1, <1>2, <1>4, <1>11, <2>2, <2>8, <2>9, <2>10, <2>11, <2>12, <2>13, MadeSteps DEF all
<1> QED
  BY <1>10, <1>11

\* There are no rows if the statement is refused, for a reason.
LEMMA RowsFailSteps ==
    ASSUME IInv, RowsFail
    PROVE  IInv'
<1>1. pc = "rows" /\ Fails(Accepted(Statement, Top.type)) /\ Made({}, FALSE) /\ Working
  BY DEF RowsFail, Working
<1>2. /\ StackOK /\ QueriesOK /\ QueryOK /\ ScopeOK /\ WorldOK /\ CollsOK /\ request \in Requests
      /\ failures \in 0..MaxFailures /\ MaxFailures \in Nat /\ failures \in Nat
  BY TypesAssumption DEF IInv, WorldOK
<1>3. PICK path, t, made : path = Top.path /\ t = Top.type /\ made = Instances({})
  OBVIOUS
<1>4. made = {} /\ IsFiniteSet(made)
  <2>1. Instances({}) = {}
    BY DEF Instances
  <2> QED
    BY <1>3, <2>1, FS_EmptySet
<1>5. failures' \in 0..MaxFailures /\ failures <= failures' /\ (failures' > 0 \/ MayBeRefused(path, t))
  <2>1. CASE ~Accepted(Statement, Top.type) /\ UNCHANGED failures
    BY <1>1, <1>2, <1>3, <2>1, RowsRefused
  <2>2. CASE failures < MaxFailures /\ failures' = failures + 1
    BY <1>2, <2>2
  <2> QED
    BY <1>1, <2>1, <2>2 DEF Fails
<1>6. PICK every : every = InstancesOf(t, Matching(tables[t], TestsOf(path, t)))
  OBVIOUS
<1> QED
  BY <1>1, <1>3, <1>4, <1>5, <1>6, MadeSteps

\* A query_t to begin with asks for nothing but what its call is to apply.
LEMMA NothingYet ==
    ASSUME NEW q, DOMAIN q \subseteq Nat, NEW t, NEW s, s = NewScope(q, t)
    PROVE  /\ IsScope(s) /\ s.page = <<>> /\ s.stat = <<>> /\ s.tests = {} /\ s.todo = Filters(q, t)
           /\ DOMAIN s.asked \subseteq Nat /\ \A k \in DOMAIN s.asked : s.asked[k].type \in {None, t}
           /\ s.query \in B!Query /\ s.query.select = <<>> /\ s.query.having = <<>>
           /\ s.query.order = <<>> /\ s.query.clauses = {}
           /\ B!Conditions(s.query) = {} /\ B!Marks(s.query) = 1..Len(s.query.params)
<1>1. /\ IsScope(s) /\ s.page = <<>> /\ s.stat = <<>> /\ s.tests = {} /\ s.todo = Filters(q, t)
      /\ s.asked = Asked(q, t) /\ s.query = B!NewQuery
  BY DEF NewScope, IsScope
<1>2. DOMAIN s.asked \subseteq Nat /\ \A k \in DOMAIN s.asked : s.asked[k].type \in {None, t}
  <2> DEFINE places == {k \in DOMAIN q : IsStatOf(q, t, k)}
             type   == IF TypedStats(q, t) = {} THEN None ELSE t
             ask(k) == AskOf(q[IF k \in TypedStats(q, t) THEN LastStat(q, t) ELSE k])
  <2>1. s.asked = [k \in places |->
                     [type |-> type, attribute |-> ask(k).attribute, stat |-> ask(k).stat]]
    BY <1>1 DEF Asked
  <2>2. places \subseteq Nat /\ type \in {None, t}
    OBVIOUS
  <2> HIDE DEF places, type, ask
  <2> QED
    BY <2>1, <2>2
<1>3. PICK none : none = <<>>
  OBVIOUS
<1>4. \A S : none \in Seq(S)
  BY <1>3
<1>5. s.query = [params |-> none, select |-> none, where |-> none, having |-> none,
                 order |-> none, clauses |-> {}, owned |-> TRUE]
  BY <1>1, <1>3 DEF B!NewQuery
<1>6. s.query \in B!Query
  BY <1>4, <1>5 DEF B!Query
<1>7. B!Conditions(s.query) = {}
  <2>1. s.query.where \o s.query.having = <<>>
    BY <1>3, <1>5
  <2>2. \A x : x = <<>> => B!RangeOf(x) = {}
    BY DEF B!RangeOf
  <2> QED
    BY <2>1, <2>2 DEF B!Conditions
<1>8. B!Marks(s.query) = 1..Len(s.query.params)
  <2>1. B!Marks(s.query) = {}
    BY <1>7 DEF B!Marks
  <2>2. Len(s.query.params) = 0
    BY <1>3, <1>5
  <2>3. 1..0 = {}
    OBVIOUS
  <2> QED
    BY <2>1, <2>2, <2>3
<1> QED
  BY <1>1, <1>2, <1>3, <1>5, <1>6, <1>7, <1>8

\* What the invariant says of a call.
IsFrame(f) == f = [path |-> f.path, type |-> f.type, query |-> f.query, next |-> f.next]
IsCall(s, k) ==
    /\ IsFrame(s[k]) /\ IsPlace(s[k].path, s[k].type) /\ Len(s[k].path) = k - 1 /\ s[k].next \in Nat \ {0}
    /\ \A j \in 1..k : s[j].path = SubSeq(s[k].path, 1, j - 1)
    /\ k > 1 => s[k].path[k - 1] < s[k - 1].next
    /\ \A i \in Nat : i >= s[k].next => Append(s[k].path, i) \notin DOMAIN colls
    /\ s[k].path \in DOMAIN colls => colls[s[k].path].type = s[k].type
    /\ IsCopy(s[k].query, {s[j].type : j \in 1..k}, k > 1)

\* Calls are the same but for being further on.
Alike(s, k) ==
    \A j \in 1..k :
        /\ IsFrame(s[j]) /\ s[j].path = stack[j].path /\ s[j].type = stack[j].type
        /\ s[j].query = stack[j].query /\ s[j].next \in Nat /\ s[j].next >= stack[j].next

\* A call under way is one still.
LEMMA CallKept ==
    ASSUME StackOK, QueriesOK, NEW k \in DOMAIN stack, NEW s, Alike(s, k)
    PROVE  IsCall(s, k)
<1>1. /\ DOMAIN stack = 1..Len(stack) /\ Len(stack) \in Nat /\ k \in 1..Len(stack)
      /\ k \in 1..k /\ 1..k \subseteq DOMAIN stack
  BY DEF StackOK, IsSeq
<1>2. /\ IsFrame(s[k]) /\ s[k].path = stack[k].path /\ s[k].type = stack[k].type
      /\ s[k].query = stack[k].query /\ s[k].next \in Nat /\ s[k].next >= stack[k].next
      /\ \A j \in 1..k : s[j].path = stack[j].path /\ s[j].type = stack[j].type
  BY <1>1 DEF Alike
<1>3. /\ IsPlace(stack[k].path, stack[k].type) /\ Len(stack[k].path) = k - 1 /\ stack[k].next \in Nat \ {0}
      /\ \A j \in 1..k : stack[j].path = SubSeq(stack[k].path, 1, j - 1)
      /\ k > 1 => stack[k].path[k - 1] < stack[k - 1].next
      /\ \A i \in Nat : i >= stack[k].next => Append(stack[k].path, i) \notin DOMAIN colls
      /\ stack[k].path \in DOMAIN colls => colls[stack[k].path].type = stack[k].type
  BY DEF StackOK
<1>4. k > 1 => s[k].path[k - 1] < s[k - 1].next
  <2> SUFFICES ASSUME k > 1
               PROVE  s[k].path[k - 1] < s[k - 1].next
    OBVIOUS
  <2>1. k - 1 \in 1..k /\ k - 1 \in 1..Len(stack[k].path) /\ k - 1 \in DOMAIN stack
    BY <1>1, <1>3
  <2>2. s[k - 1].next \in Nat /\ s[k - 1].next >= stack[k - 1].next
    BY <2>1 DEF Alike
  <2>3. stack[k].path \in Seq(Nat)
    BY <1>3 DEF IsPlace
  <2>4. stack[k].path[k - 1] \in Nat
    BY <2>1, <2>3
  <2>5. stack[k - 1].next \in Nat
    BY <2>1 DEF StackOK
  <2> QED
    BY <1>2, <1>3, <2>2, <2>4, <2>5
<1>5. \A i \in Nat : i >= s[k].next => Append(s[k].path, i) \notin DOMAIN colls
  BY <1>2, <1>3
<1>6. IsCopy(s[k].query, {s[j].type : j \in 1..k}, k > 1)
  <2>1. {s[j].type : j \in 1..k} = {stack[j].type : j \in 1..k}
    BY <1>2
  <2>2. IsCopy(stack[k].query, {stack[j].type : j \in 1..k}, k > 1)
    BY DEF QueriesOK
  <2> QED
    BY <1>2, <2>1, <2>2
<1>7. s[k].next \in Nat \ {0}
  BY <1>2, <1>3
<1> QED
  BY <1>2, <1>3, <1>4, <1>5, <1>6, <1>7 DEF IsCall

\* Calls, as long as nothing is collected.
LEMMA CallsAre ==
    ASSUME Grows, colls' = colls, IsSeq(stack'), \A k \in DOMAIN stack' : IsCall(stack', k),
           Working' \/ pc' = "include" => stack' # <<>>,
           Working' => Top'.path \notin DOMAIN colls, pc' = "include" => Top'.path \in DOMAIN colls
    PROVE  StackOK' /\ QueriesOK'
<1>1. PICK s : s = stack'
  OBVIOUS
<1>2. ASSUME NEW k \in DOMAIN s
      PROVE  IsCall(s, k)'
  <2>1. IsCall(s, k)
    BY <1>1
  <2>2. PICK p, t, q, above : p = s[k].path /\ t = s[k].type /\ q = s[k].query /\ above = {s[j].type : j \in 1..k}
    OBVIOUS
  <2>3. IsPlace(p, t) /\ IsCopy(q, above, k > 1)
    BY <2>1, <2>2 DEF IsCall
  <2>4. IsPlace(p, t)' /\ Params' = Params
    BY <2>3, PlaceStays
  <2>5. IsCopy(q, above, k > 1)'
    BY <2>3, <2>4 DEF IsCopy, Whole
  <2> QED
    BY <2>1, <2>2, <2>4, <2>5 DEF IsCall
<1>3. StackOK'
  BY <1>1, <1>2 DEF StackOK, IsCall, IsFrame
<1>4. QueriesOK'
  <2> SUFFICES ASSUME NEW k \in DOMAIN s
               PROVE  IsCopy(stack[k].query, {stack[j].type : j \in 1..k}, k > 1)'
    BY <1>1 DEF QueriesOK
  <2>1. IsCopy(s[k].query, {s[j].type : j \in 1..k}, k > 1)'
    BY <1>2 DEF IsCall
  <2>2. s[k].query = stack'[k].query /\ {s[j].type : j \in 1..k} = {stack'[j].type : j \in 1..k}
    BY <1>1
  <2> QED
    BY <2>1, <2>2
<1> QED
  BY <1>3, <1>4

\* The calls when the innermost one is past an include.
LEMMA PassedCalls ==
    ASSUME StackOK, QueriesOK, pc = "include", NEW s, s = Passed, NEW n, n = Len(stack)
    PROVE  /\ n \in Nat \ {0} /\ IsSeq(s) /\ Len(s) = n /\ DOMAIN s = 1..n /\ DOMAIN stack = 1..n
           /\ Alike(s, n) /\ s[n].next = Top.next + 1 /\ s[n].path = Top.path
<1>1. /\ n \in Nat \ {0} /\ n \in DOMAIN stack /\ stack \in Seq(Range(stack)) /\ Top = stack[n]
      /\ IsFrame(Top) /\ Top.next \in Nat
  BY InnermostCall DEF StackOK, IsSeq, IsFrame
<1>2. DOMAIN stack = 1..n
  BY <1>1
<1>3. PICK call : call = [stack[n] EXCEPT !.next = @ + 1]
  OBVIOUS
<1>4. call = [path |-> Top.path, type |-> Top.type, query |-> Top.query, next |-> Top.next + 1]
  BY <1>1, <1>3 DEF IsFrame
<1>5. s = [stack EXCEPT ![n] = call]
  BY <1>1, <1>3 DEF Passed
<1> DEFINE T == Range(stack) \cup {call}
<1>6. stack \in Seq(T) /\ call \in T
  BY <1>1
<1> HIDE DEF T
<1>7. s \in Seq(T) /\ Len(s) = n /\ DOMAIN s = 1..n /\ s[n] = call /\ \A k \in 1..n : k # n => s[k] = stack[k]
  BY <1>1, <1>2, <1>5, <1>6
<1>8. IsSeq(s)
  BY <1>7, SequenceOf
<1>9. Alike(s, n)
  <2> SUFFICES ASSUME NEW j \in 1..n
               PROVE  /\ IsFrame(s[j]) /\ s[j].path = stack[j].path /\ s[j].type = stack[j].type
                      /\ s[j].query = stack[j].query /\ s[j].next \in Nat /\ s[j].next >= stack[j].next
    BY DEF Alike
  <2>1. CASE j = n
    BY <1>1, <1>4, <1>7, <2>1 DEF IsFrame
  <2>2. CASE j # n
    <3>1. IsFrame(stack[j]) /\ stack[j].next \in Nat
      BY <1>2 DEF StackOK, IsFrame
    <3> QED
      BY <1>7, <2>2, <3>1
  <2> QED
    BY <2>1, <2>2
<1> QED
  BY <1>1, <1>2, <1>4, <1>7, <1>8, <1>9

\* The collections and their stats, between includes.
LEMMA AnswersStay ==
    ASSUME IInv, UNCHANGED <<request, colls, stats, failures>>, pc = "include", pc' # "rows"
    PROVE  Grows /\ CollsOK' /\ StatsOK'
<1>1. Grows
  BY DEF Grows
<1>2. CollsOK /\ StatsOK /\ failures \in Nat
  BY TypesAssumption DEF IInv, WorldOK
<1>3. CollsOK'
  <2> SUFFICES ASSUME NEW path \in DOMAIN colls
               PROVE  IsAnswer(path)'
    BY DEF CollsOK
  <2>1. CountStays(path)' <=> CountStays(path)
    BY DEF CountStays
  <2>2. IsAnswer(path) /\ {failures, failures'} \subseteq Nat /\ failures <= failures'
    BY <1>2 DEF CollsOK
  <2> QED
    BY <1>1, <2>1, <2>2, AnswerStays
<1>4. StatsOK'
  <2>1. \A k \in DOMAIN stats : IsStat(stats[k])'
    <3> SUFFICES ASSUME NEW k \in DOMAIN stats
                 PROVE  IsStat(stats[k])'
      OBVIOUS
    <3>1. PICK e : e = stats[k]
      OBVIOUS
    <3>2. IsStat(e)'
      BY <1>1, <1>2, <3>1, StatStays DEF StatsOK
    <3> QED
      BY <3>1, <3>2
  <2>2. \A k \in DOMAIN stats : stats[k].path \in DOMAIN colls /\ colls[stats[k].path].type = stats[k].of
    BY <1>2 DEF StatsOK
  <2> QED
    BY <1>2, <2>1, <2>2 DEF StatsOK
<1> QED
  BY <1>1, <1>3, <1>4

\* A name that is no relation is gone past.
LEMMA SkipIncludeSteps ==
    ASSUME IInv, SkipInclude
    PROVE  IInv'
<1>1. /\ pc = "include" /\ pc' = "include" /\ ~Working' /\ stack' = Passed
      /\ UNCHANGED <<tables, request, scope, colls, stats, writes, failures>>
  BY DEF SkipInclude, Including, Working
<1>2. /\ StackOK /\ QueriesOK /\ WorldOK /\ QueryOK /\ Top.path \in DOMAIN colls
  BY <1>1 DEF IInv, StackOK
<1>3. Grows /\ CollsOK' /\ StatsOK'
  BY <1>1, AnswersStay
<1>4. PICK n, s : n = Len(stack) /\ s = stack'
  OBVIOUS
<1>5. /\ n \in Nat \ {0} /\ IsSeq(s) /\ Len(s) = n /\ DOMAIN s = 1..n /\ DOMAIN stack = 1..n
      /\ Alike(s, n) /\ s[n].path = Top.path
  <2>1. s = Passed
    BY <1>1, <1>4
  <2> QED
    BY <1>1, <1>2, <1>4, <2>1, PassedCalls
<1>6. \A k \in DOMAIN s : IsCall(s, k)
  <2>1. \A k \in 1..n : Alike(s, k)
    BY <1>5 DEF Alike
  <2> QED
    BY <1>2, <1>5, <2>1, CallKept
<1>7. stack' # <<>> /\ Top'.path \in DOMAIN colls
  <2>1. s # <<>>
    BY <1>5, NotEmpty DEF IsSeq
  <2>2. Last(s) = s[n]
    BY <1>5 DEF Last
  <2> QED
    BY <1>2, <1>4, <1>5, <2>1, <2>2 DEF Top
<1>8. StackOK' /\ QueriesOK'
  BY <1>1, <1>3, <1>4, <1>5, <1>6, <1>7, CallsAre
<1>9. WorldOK' /\ QueryOK' /\ ScopeOK' /\ CrashOK'
  BY <1>1, <1>2 DEF WorldOK, QueryOK, Stays, ScopeOK, CrashOK
<1> QED
  BY <1>3, <1>8, <1>9 DEF IInv

\* A place below: one more than the other.
LEMMA PlaceMade ==
    ASSUME NEW path \in Seq(Nat), NEW i \in Nat, NEW below, below = Append(path, i)
    PROVE  /\ below \in Seq(Nat) /\ below # <<>> /\ Len(below) = Len(path) + 1 /\ Front(below) = path
           /\ below[Len(path) + 1] = i /\ Len(path) \in Nat
           /\ \A k \in 0..Len(path) : SubSeq(below, 1, k) = SubSeq(path, 1, k)
           /\ SubSeq(below, 1, Len(path)) = path /\ SubSeq(below, 1, Len(path) + 1) = below
<1>1. /\ below \in Seq(Nat) /\ Len(below) = Len(path) + 1 /\ below[Len(path) + 1] = i
      /\ Len(path) \in Nat /\ \A j \in 1..Len(path) : below[j] = path[j]
  OBVIOUS
<1>2. Front(below) = path /\ below # <<>>
  BY FrontOfAppend
<1>3. \A k \in 0..Len(path) : SubSeq(below, 1, k) = SubSeq(path, 1, k)
  <2> SUFFICES ASSUME NEW k \in 0..Len(path)
               PROVE  SubSeq(below, 1, k) = SubSeq(path, 1, k)
    OBVIOUS
  <2>1. k \in 0..Len(below) /\ k \in 0..Len(path)
    BY <1>1
  <2>2. /\ SubSeq(below, 1, k) \in Seq(Nat) /\ Len(SubSeq(below, 1, k)) = k
        /\ \A j \in 1..k : SubSeq(below, 1, k)[j] = below[j]
    BY <1>1, <2>1, Beginning
  <2>3. /\ SubSeq(path, 1, k) \in Seq(Nat) /\ Len(SubSeq(path, 1, k)) = k
        /\ \A j \in 1..k : SubSeq(path, 1, k)[j] = path[j]
    BY <2>1, Beginning
  <2>4. \A j \in 1..k : SubSeq(below, 1, k)[j] = SubSeq(path, 1, k)[j]
    BY <1>1, <2>2, <2>3
  <2>5. SubSeq(below, 1, k) \in [1..k -> Nat] /\ SubSeq(path, 1, k) \in [1..k -> Nat]
    <3>1. \A a \in Seq(Nat) : a \in [1..Len(a) -> Nat]
      OBVIOUS
    <3> QED
      BY <2>2, <2>3, <3>1
  <2>6. \A a, b \in [1..k -> Nat] : (\A j \in 1..k : a[j] = b[j]) => a = b
    OBVIOUS
  <2> QED
    BY <2>4, <2>5, <2>6
<1>4. SubSeq(path, 1, Len(path)) = path
  OBVIOUS
<1>5. SubSeq(below, 1, Len(path) + 1) = below
  <2>1. \A a \in Seq(Nat) : SubSeq(a, 1, Len(a)) = a
    OBVIOUS
  <2> QED
    BY <1>1, <2>1
<1>6. SubSeq(below, 1, Len(path)) = path
  BY <1>1, <1>3, <1>4
<1> QED
  BY <1>1, <1>2, <1>3, <1>5, <1>6

\* A call for an include: a copy of the query string, with the ids to relate to.
LEMMA IncludeSteps ==
    ASSUME IInv, Include
    PROVE  IInv'
<1> DEFINE above == {stack[j].type : j \in 1..Len(stack)}
<1>1. /\ pc = "include" /\ pc' = "filters" /\ Working'
      /\ UNCHANGED <<tables, request, colls, stats, writes, failures>>
  BY DEF Include, Including, Working
<1>2. /\ StackOK /\ QueriesOK /\ WorldOK /\ CollsOK /\ Top.path \in DOMAIN colls /\ request \in Requests
  BY <1>1 DEF IInv, StackOK, WorldOK
<1>3. Grows /\ CollsOK' /\ StatsOK'
  <2>1. UNCHANGED <<request, colls, stats, failures>> /\ pc' # "rows"
    BY <1>1
  <2> QED
    BY <1>1, <2>1, AnswersStay
<1>4. PICK path, t, u, fk, n : /\ path = Top.path /\ t = Top.type /\ u = Name /\ fk = ForeignKey(t, u)
                               /\ n = Len(stack)
  OBVIOUS
<1>5. /\ IsPlace(path, t) /\ path \in Seq(Nat) /\ t \in Types /\ n \in Nat \ {0} /\ Len(path) = n - 1
      /\ Top = stack[n] /\ n \in DOMAIN stack /\ Top.next \in Nat \ {0}
      /\ IsCopy(Top.query, above, n > 1)
  BY <1>1, <1>2, <1>4, InnermostCall DEF IsPlace
<1>6. u \in Types /\ fk # None /\ IsAnswer(path) /\ colls[path].type = t
  <2>1. u \in Types /\ fk # None
    BY <1>4 DEF Include, Known
  <2>2. stack[n].path \in DOMAIN colls => colls[stack[n].path].type = stack[n].type
    BY <1>2, <1>5 DEF StackOK
  <2> QED
    BY <1>2, <1>4, <1>5, <2>1, <2>2 DEF CollsOK
<1>7. PICK below : below = Append(path, Top.next)
  OBVIOUS
<1>8. /\ below \in Seq(Nat) /\ below # <<>> /\ Len(below) = n /\ Front(below) = path /\ below[n] = Top.next
      /\ \A k \in 0..(n - 1) : SubSeq(below, 1, k) = SubSeq(path, 1, k)
      /\ SubSeq(below, 1, n - 1) = path /\ SubSeq(below, 1, n) = below
  <2>1. PICK i, m : i = Top.next /\ m = Len(path)
    OBVIOUS
  <2>2. i \in Nat /\ m \in Nat /\ m + 1 = n /\ n - 1 = m
    BY <1>5, <2>1
  <2>3. below \in Seq(Nat) /\ Len(below) = Len(path) + 1 /\ below[Len(path) + 1] = i
    BY <1>5, <1>7, <2>1, <2>2
  <2>6. below # <<>> /\ Front(below) = path
    BY <1>5, <1>7, <2>1, <2>2, PlaceMade
  <2>4. \A k \in 0..Len(path) : SubSeq(below, 1, k) = SubSeq(path, 1, k)
    BY <1>5, <1>7, <2>1, <2>2, PlaceMade
  <2>5. SubSeq(below, 1, Len(path)) = path /\ SubSeq(below, 1, Len(path) + 1) = below
    BY <1>5, <1>7, <2>1, <2>2, PlaceMade
  <2> QED
    BY <2>1, <2>2, <2>3, <2>4, <2>5, <2>6
<1>9. LinkKey(below, u) = fk
  BY <1>4, <1>6, <1>8 DEF LinkKey
<1>10. IsPlace(below, u)
  <2>1. \A k \in 0..(Len(below) - 1) : SubSeq(below, 1, k) \in DOMAIN colls
    <3> SUFFICES ASSUME NEW k \in 0..(n - 1)
                 PROVE  SubSeq(below, 1, k) \in DOMAIN colls
      BY <1>8
    <3>1. CASE k = n - 1
      BY <1>2, <1>4, <1>8, <3>1
    <3>2. CASE k # n - 1
      <4>1. k \in 0..(Len(path) - 1)
        BY <1>5, <3>2
      <4> QED
        BY <1>5, <1>8, <4>1 DEF IsPlace
    <3> QED
      BY <3>1, <3>2
  <2> QED
    BY <1>6, <1>8, <1>9, <2>1 DEF IsPlace
<1>11. Above(below) = above
  <2>1. \A j \in 1..n : stack[j].path = SubSeq(below, 1, j - 1) /\ stack[j].path \in DOMAIN colls
                        /\ colls[stack[j].path].type = stack[j].type
    <3> SUFFICES ASSUME NEW j \in 1..n
                 PROVE  stack[j].path = SubSeq(below, 1, j - 1) /\ stack[j].path \in DOMAIN colls
                        /\ colls[stack[j].path].type = stack[j].type
      OBVIOUS
    <3>1. stack[n].path = path /\ j - 1 \in 0..(n - 1) /\ j \in DOMAIN stack
      <4>1. stack \in Seq(Range(stack))
        BY <1>2 DEF StackOK, IsSeq
      <4>2. DOMAIN stack = 1..n
        BY <1>4, <4>1
      <4> QED
        BY <1>4, <1>5, <4>2
    <3>2. stack[j].path = SubSeq(path, 1, j - 1)
      BY <1>2, <1>5, <3>1 DEF StackOK
    <3>3. stack[j].path = SubSeq(below, 1, j - 1)
      BY <1>8, <3>1, <3>2
    <3>4. stack[j].path \in DOMAIN colls
      BY <1>8, <1>10, <3>1, <3>3 DEF IsPlace
    <3> QED
      BY <1>2, <3>1, <3>3, <3>4 DEF StackOK
  <2>2. Above(below) = {colls[SubSeq(below, 1, k)].type : k \in 0..(n - 1)}
    BY <1>8 DEF Above
  <2>3. Above(below) \subseteq above
    <3> SUFFICES ASSUME NEW k \in 0..(n - 1)
                 PROVE  colls[SubSeq(below, 1, k)].type \in above
      BY <2>2
    <3>1. k + 1 \in 1..n /\ (k + 1) - 1 = k
      BY <1>5
    <3>2. stack[k + 1].path = SubSeq(below, 1, k) /\ colls[stack[k + 1].path].type = stack[k + 1].type
      BY <2>1, <3>1
    <3> QED
      BY <1>4, <3>1, <3>2
  <2>4. above \subseteq Above(below)
    <3> SUFFICES ASSUME NEW j \in 1..n
                 PROVE  stack[j].type \in Above(below)
      BY <1>4
    <3>1. PICK k \in 0..(n - 1) : k = j - 1
      BY <1>5
    <3>2. stack[j].path = SubSeq(below, 1, k) /\ colls[stack[j].path].type = stack[j].type
      BY <2>1, <3>1
    <3>3. colls[SubSeq(below, 1, k)].type = stack[j].type
      BY <3>2
    <3> QED
      BY <2>2, <3>3
  <2> QED
    BY <2>3, <2>4
<1>12. PICK ids : ids = RelatedIds(path, t, u, Rows)
  OBVIOUS
<1>13. ids = LinkIds(below, u) /\ IsFiniteSet(ids) /\ ids \subseteq Cell
  <2>1. ids = LinkIds(below, u)
    BY <1>4, <1>6, <1>8, <1>12 DEF LinkIds, Rows
  <2> QED
    BY <1>2, <1>8, <1>10, <2>1, PlaceBelow
<1>14. PICK q, rest : rest = Tail(Includes(Top)[Top.next]) /\ q = IncludedQuery(Top.query, fk, rest, ids)
  OBVIOUS
<1>15. /\ stack' = Append(Passed, Frame(below, u, q)) /\ scope' = NewScope(q, u)
  BY <1>4, <1>7, <1>12, <1>14 DEF Include
<1>16. /\ IsCopy(q, above, TRUE)
       /\ {leaf \in Range(q) : IsOwn(leaf)} =
            IF LeavesAt(Params, <<"filter">>) = {} THEN {<<<<"filter", fk>>, SetToSeq(ids)>>} ELSE {}
  <2>1. fk \notin Types
    BY <1>4, <1>5, <1>6, KeyOfInclude
  <2>2. PICK set, inner : set = above /\ inner = (n > 1)
    OBVIOUS
  <2>3. IsCopy(Top.query, set, inner)
    BY <1>5, <2>2
  <2>4. PICK tq : tq = Top.query
    OBVIOUS
  <2>5. IsCopy(tq, set, inner) /\ q = IncludedQuery(tq, fk, rest, ids)
    BY <1>14, <2>3, <2>4
  <2>6. IsFiniteSet(ids) /\ ids \subseteq Cell
    BY <1>13
  <2>7. IsCopy(IncludedQuery(tq, fk, rest, ids), set, TRUE)
    BY <2>1, <2>5, <2>6, IncludedCopy
  <2>8. {leaf \in Range(IncludedQuery(tq, fk, rest, ids)) : IsOwn(leaf)} =
          IF LeavesAt(Params, <<"filter">>) = {} THEN {<<<<"filter", fk>>, SetToSeq(ids)>>} ELSE {}
    BY <2>1, <2>5, <2>6, IncludedCopy
  <2> QED
    BY <2>2, <2>5, <2>7, <2>8
<1>17. IsQuery(Params) /\ DOMAIN q \subseteq Nat
  BY <1>2, <1>16, ClientsCopy DEF IsCopy, IsQuery
<1>18. Filters(q, u) = FiltersOf(below, u)
  BY <1>5, <1>6, <1>8, <1>9, <1>11, <1>13, <1>16, <1>17, FiltersOfInclude
<1>19. PICK f, s, p : f = Frame(below, u, q) /\ s = stack' /\ p = Passed
  OBVIOUS
<1>20. /\ f.path = below /\ f.type = u /\ f.query = Consumed(q, u) /\ f.next = 1 /\ IsFrame(f)
  BY <1>19 DEF Frame, IsFrame
<1>21. /\ IsSeq(p) /\ Len(p) = n /\ DOMAIN stack = 1..n
       /\ Alike(p, n) /\ p[n].next = Top.next + 1 /\ p[n].path = path
  BY <1>1, <1>2, <1>4, <1>19, PassedCalls
<1>22. /\ IsSeq(s) /\ DOMAIN s = 1..n + 1 /\ s[n + 1] = f /\ Last(s) = f /\ s # <<>>
       /\ \A j \in 1..n : s[j] = p[j]
  <2> DEFINE T == Range(p) \cup {f}
  <2>1. p \in Seq(T) /\ f \in T
    BY <1>21 DEF IsSeq
  <2> HIDE DEF T
  <2>2. s = Append(p, f)
    BY <1>15, <1>19
  <2>3. s \in Seq(T) /\ Len(s) = n + 1 /\ DOMAIN s = 1..n + 1 /\ s[n + 1] = f /\ \A j \in 1..n : s[j] = p[j]
    BY <1>21, <2>1, <2>2
  <2>4. Last(s) = f /\ s # <<>>
    BY <2>1, <2>2, FrontOfAppend
  <2> QED
    BY <2>3, <2>4, SequenceOf
<1>23. below \notin DOMAIN colls
  <2>1. Append(stack[n].path, stack[n].next) \notin DOMAIN colls
    <3>1. stack[n].next \in Nat /\ stack[n].next >= stack[n].next
      BY <1>5
    <3> QED
      BY <1>2, <1>5, <3>1 DEF StackOK
  <2> QED
    BY <1>4, <1>5, <1>7, <2>1
<1>24. \A k \in DOMAIN s : IsCall(s, k)
  <2>1. ASSUME NEW k \in 1..n
        PROVE  IsCall(s, k)
    <3>1. \A j \in 1..k : j \in 1..n
      BY <1>5
    <3>2. Alike(s, k)
      BY <1>21, <1>22, <3>1 DEF Alike
    <3> QED
      BY <1>2, <1>21, <3>2, CallKept
  <2>2. IsCall(s, n + 1)
    <3>1. Len(s[n + 1].path) = (n + 1) - 1
      BY <1>5, <1>8, <1>20, <1>22
    <3>2. \A j \in 1..n + 1 : s[j].path = SubSeq(s[n + 1].path, 1, j - 1)
      <4> SUFFICES ASSUME NEW j \in 1..n + 1
                   PROVE  s[j].path = SubSeq(below, 1, j - 1)
        BY <1>20, <1>22
      <4>1. CASE j = n + 1
        BY <1>5, <1>8, <1>20, <1>22, <4>1
      <4>2. CASE j # n + 1
        <5>1. j \in 1..n /\ j - 1 \in 0..(n - 1)
          BY <1>5, <4>2
        <5>2. s[j].path = stack[j].path
          BY <1>21, <1>22, <5>1 DEF Alike
        <5>3. stack[j].path = SubSeq(stack[n].path, 1, j - 1)
          BY <1>2, <1>5, <5>1 DEF StackOK
        <5>4. stack[n].path = path
          BY <1>4, <1>5
        <5> QED
          BY <1>8, <5>1, <5>2, <5>3, <5>4
      <4> QED
        BY <4>1, <4>2
    <3>3. s[n + 1].path[(n + 1) - 1] < s[(n + 1) - 1].next
      <4>1. (n + 1) - 1 = n /\ n \in 1..n /\ Top.next < Top.next + 1
        BY <1>5
      <4> QED
        BY <1>8, <1>20, <1>21, <1>22, <4>1
    <3>4. \A i \in Nat : Append(below, i) \notin DOMAIN colls
      <4> SUFFICES ASSUME NEW i \in Nat, Append(below, i) \in DOMAIN colls
                   PROVE  FALSE
        OBVIOUS
      <4>1. PICK beneath : beneath = Append(below, i)
        OBVIOUS
      <4>2. IsPlace(beneath, colls[beneath].type)
        BY <1>2, <4>1 DEF CollsOK, IsAnswer
      <4>3. Front(beneath) = below /\ beneath # <<>>
        <5>1. below \in Seq(Nat)
          BY <1>8
        <5> QED
          BY <4>1, <5>1, FrontOfAppend
      <4> QED
        BY <1>2, <1>23, <4>2, <4>3, PlaceBelow
    <3>5. IsCopy(f.query, {s[j].type : j \in 1..n + 1}, TRUE)
      <4>1. IsCopy(Consumed(q, u), above \cup {u}, TRUE)
        <5> HIDE DEF above
        <5> QED
          BY <1>6, <1>16, ConsumedCopy
      <4>2. {s[j].type : j \in 1..n + 1} = above \cup {u}
        <5>1. \A j \in 1..n : s[j].type = stack[j].type
          BY <1>21, <1>22 DEF Alike
        <5>2. 1..n + 1 = (1..n) \cup {n + 1}
          BY <1>5
        <5> QED
          BY <1>4, <1>20, <1>22, <5>1, <5>2
      <4> QED
        BY <1>20, <4>1, <4>2
    <3>6. (n + 1 > 1) = TRUE
      BY <1>5
    <3>7. IsCopy(s[n + 1].query, {s[j].type : j \in 1..n + 1}, n + 1 > 1)
      BY <1>22, <3>5, <3>6
    <3>8. /\ IsFrame(s[n + 1]) /\ IsPlace(s[n + 1].path, s[n + 1].type) /\ s[n + 1].next \in Nat \ {0}
          /\ s[n + 1].path \notin DOMAIN colls
          /\ \A i \in Nat : Append(s[n + 1].path, i) \notin DOMAIN colls
      BY <1>10, <1>20, <1>22, <1>23, <3>4
    <3> QED
      BY <3>1, <3>2, <3>3, <3>7, <3>8 DEF IsCall
  <2>3. \A k \in 1..n + 1 : k \in 1..n \/ k = n + 1
    BY <1>5
  <2> QED
    BY <1>22, <2>1, <2>2, <2>3
<1>25. Top' = f
  BY <1>19, <1>22 DEF Top
<1>26. StackOK' /\ QueriesOK'
  BY <1>1, <1>3, <1>19, <1>20, <1>22, <1>23, <1>24, <1>25, CallsAre
<1>27. PICK new : new = scope'
  OBVIOUS
<1>28. /\ IsScope(new) /\ new.page = <<>> /\ new.stat = <<>> /\ new.tests = {} /\ new.todo = Filters(q, u)
       /\ DOMAIN new.asked \subseteq Nat /\ \A k \in DOMAIN new.asked : new.asked[k].type \in {None, u}
       /\ new.query \in B!Query /\ new.query.select = <<>> /\ new.query.having = <<>>
       /\ new.query.order = <<>> /\ new.query.clauses = {}
       /\ B!Conditions(new.query) = {} /\ B!Marks(new.query) = 1..Len(new.query.params)
  <2>1. new = NewScope(q, u)
    BY <1>15, <1>27
  <2> QED
    BY <1>17, <2>1, NothingYet
<1>29. ~Stays'
  BY <1>27, <1>28 DEF Stays
<1>30. QueryOK'
  BY <1>27, <1>28, <1>29 DEF QueryOK, IsScope
<1>31. ScopeOK'
  <2>1. FiltersOf(below, u)' = FiltersOf(below, u) /\ TestsOf(below, u)' = TestsOf(below, u)
    BY <1>3, <1>10, PlaceStays
  <2>2. TestsOf(below, u) = {TestOf(u, g) : g \in FiltersOf(below, u)}
    BY DEF TestsOf
  <2>3. below = Top'.path /\ u = Top'.type
    BY <1>20, <1>25
  <2>4. /\ new.todo \subseteq FiltersOf(below, u)'
        /\ new.tests \cup {TestOf(u, g) : g \in new.todo} = TestsOf(below, u)'
    BY <1>18, <1>28, <2>1, <2>2
  <2> QED
    BY <1>1, <1>27, <1>28, <1>29, <2>3, <2>4 DEF ScopeOK
<1>32. WorldOK' /\ CrashOK'
  BY <1>1, <1>2 DEF WorldOK, CrashOK
<1> QED
  BY <1>3, <1>26, <1>30, <1>31, <1>32 DEF IInv

\* Every row has the key that it was selected for: only a count that stayed has not.
LEMMA RelatingFails ==
    ASSUME request \in Requests, CollsOK, NEW path \in DOMAIN colls, path # <<>>, RelatingCrashes(path)
    PROVE  failures # 0
<1>1. PICK t, u : t = colls[Front(path)].type /\ u = colls[path].type
  OBVIOUS
<1>2. PICK r \in colls[path].rows : Get(r, RelatingKey(path)) = NullText
  BY DEF RelatingCrashes
<1>3. /\ IsAnswer(path) /\ IsPlace(path, u) /\ IsInstance(u, r)
  BY <1>1 DEF CollsOK, IsAnswer
<1>4. u \in Types /\ t \in Types /\ ForeignKey(t, u) # None
  BY <1>1, <1>3, PlaceBelow DEF LinkKey
<1>5. RelationsOf(t, u) = {}
  <2>1. BelongsToKey(t, u) = None
    BY <1>1 DEF RelatingCrashes
  <2> QED
    BY <2>1, KeyOfRelation DEF BelongsToKey
<1>6. RelationsOf(u, t) # {} /\ ForeignKey(t, u) = KeyOf(u, t)
  BY <1>4, <1>5 DEF ForeignKey
<1>7. KeyOf(u, t) \in Keys(u) /\ KeyOf(u, t) # "id"
  BY <1>6, KeyOfRelation
<1>8. RelatingKey(path) = KeyOf(u, t)
  BY <1>1, <1>6, <1>7 DEF RelatingKey
<1>9. CASE CountStays(path)
  BY <1>3, <1>9 DEF IsAnswer
<1>10. CASE ~CountStays(path)
  <2>1. DOMAIN r.cells = ColumnsAt(u)
    BY <1>1, <1>10, InstanceSeen
  <2>2. KeyOf(u, t) \in DOMAIN r.cells
    BY <1>4, <1>7, <2>1, ColumnsAre
  <2>3. Get(r, KeyOf(u, t)) = r.cells[KeyOf(u, t)]
    BY <1>7, <2>2 DEF Get
  <2>4. r.cells[KeyOf(u, t)] \in Cell
    BY <1>3, <2>2 DEF IsInstance
  <2> QED
    BY <1>2, <1>8, <2>3, <2>4 DEF Cell, Blank, NullText
<1> QED
  BY <1>9, <1>10

\* Back in the call that included it; rows without their key crash it.
LEMMA ReturnSteps ==
    ASSUME IInv, Return
    PROVE  IInv'
<1>1. /\ pc = "include" /\ pc' \in {"done", "crashed", "include"} /\ ~Working' /\ stack' = Front(stack)
      /\ pc' # "done" => Top.path # <<>>
      /\ pc' = "crashed" => RelatingCrashes(Top.path)
      /\ UNCHANGED <<tables, request, scope, colls, stats, writes, failures>>
  BY DEF Return, Working
<1>2. /\ StackOK /\ QueriesOK /\ WorldOK /\ QueryOK /\ CollsOK /\ Top.path \in DOMAIN colls /\ request \in Requests
  BY <1>1 DEF IInv, StackOK, WorldOK
<1>3. Grows /\ CollsOK' /\ StatsOK'
  <2>1. UNCHANGED <<request, colls, stats, failures>> /\ pc' # "rows"
    BY <1>1
  <2> QED
    BY <1>1, <2>1, AnswersStay
<1>4. PICK n, s, path : n = Len(stack) /\ s = stack' /\ path = Top.path
  OBVIOUS
<1>5. /\ n \in Nat \ {0} /\ Top = stack[n] /\ n \in DOMAIN stack
      /\ IsPlace(path, Top.type) /\ path \in Seq(Nat) /\ Len(path) = n - 1
  BY <1>1, <1>2, <1>4, InnermostCall DEF IsPlace
<1>6. /\ IsSeq(s) /\ Len(s) = n - 1 /\ DOMAIN s = 1..n - 1 /\ DOMAIN stack = 1..n
      /\ \A k \in 1..n - 1 : s[k] = stack[k]
  <2>1. stack \in Seq(Range(stack)) /\ stack # <<>>
    BY <1>1, <1>2 DEF StackOK, IsSeq
  <2>2. s \in Seq(Range(stack)) /\ Len(s) = n - 1 /\ \A k \in 1..n - 1 : s[k] = stack[k]
    BY <1>1, <1>4, <2>1, FrontOfSequence
  <2>3. DOMAIN stack = 1..n
    BY <1>4, <2>1
  <2> QED
    BY <2>2, <2>3, SequenceOf
<1>7. \A k \in DOMAIN s : IsCall(s, k)
  <2> SUFFICES ASSUME NEW k \in DOMAIN s
               PROVE  IsCall(s, k)
    OBVIOUS
  <2>1. k \in DOMAIN stack /\ \A j \in 1..k : j \in DOMAIN stack /\ j \in 1..n - 1
    BY <1>5, <1>6
  <2>2. \A j \in 1..k : IsFrame(stack[j]) /\ stack[j].next \in Nat
    BY <1>2, <2>1 DEF StackOK, IsFrame
  <2>3. \A j \in 1..k : s[j] = stack[j]
    BY <1>6, <2>1
  <2>4. Alike(s, k)
    BY <2>2, <2>3 DEF Alike
  <2> QED
    BY <1>2, <2>1, <2>4, CallKept
<1>8. pc' = "include" => stack' # <<>> /\ Top'.path \in DOMAIN colls
  <2> SUFFICES ASSUME pc' = "include"
               PROVE  s # <<>> /\ Last(s).path \in DOMAIN colls
    BY <1>4 DEF Top
  <2>1. n > 1
    <3>1. path # <<>>
      BY <1>1, <1>4
    <3> QED
      BY <1>5, <3>1
  <2>2. s # <<>> /\ Last(s) = stack[n - 1]
    <3>1. s # <<>>
      BY <1>5, <1>6, <2>1, NotEmpty DEF IsSeq
    <3> QED
      BY <1>5, <1>6, <2>1, <3>1 DEF Last
  <2>3. stack[n - 1].path = SubSeq(path, 1, (n - 1) - 1)
    <3>1. n - 1 \in 1..n
      BY <1>5, <2>1
    <3> QED
      BY <1>2, <1>4, <1>5, <3>1 DEF StackOK
  <2>4. (n - 1) - 1 \in 0..(Len(path) - 1)
    BY <1>5, <2>1
  <2>5. SubSeq(path, 1, (n - 1) - 1) \in DOMAIN colls
    BY <1>5, <2>4 DEF IsPlace
  <2> QED
    BY <2>2, <2>3, <2>5
<1>9. StackOK' /\ QueriesOK'
  BY <1>1, <1>3, <1>4, <1>6, <1>7, <1>8, CallsAre
<1>10. CrashOK'
  <2>1. pc' = "crashed" => failures # 0
    BY <1>1, <1>2, RelatingFails
  <2>2. failures \in Nat
    BY <1>2, TypesAssumption DEF WorldOK
  <2> QED
    BY <1>1, <2>1, <2>2 DEF CrashOK
<1>11. WorldOK' /\ QueryOK' /\ ScopeOK'
  BY <1>1, <1>2 DEF WorldOK, QueryOK, Stays, ScopeOK
<1> QED
  BY <1>3, <1>9, <1>10, <1>11 DEF IInv

\* What another request writes leaves a table, of rows with an id each.
LEMMA WrittenTable ==
    ASSUME NEW t, NEW table, IsTable(t, table), NEW row \in Row(t), NEW others,
           others \subseteq table, \A r \in others : r.id # row.id,
           NEW rows, rows \subseteq others \cup {row}
    PROVE  IsTable(t, rows)
<1>1. IsFiniteSet(table) /\ table \subseteq Row(t)
  BY DEF IsTable
<1>2. IsFiniteSet(others) /\ IsFiniteSet(others \cup {row})
  BY <1>1, FS_Subset, FS_AddElement
<1>4. IsFiniteSet(rows)
  BY <1>2, FS_Subset
<1>3. \A a, b \in rows : a.id = b.id => a = b
  BY DEF IsTable
<1> QED
  BY <1>1, <1>3, <1>4 DEF IsTable

\* A step that leaves all but the tables as it is.
LEMMA OthersStep ==
    ASSUME IInv, UNCHANGED <<request, stack, scope, pc, colls, stats, failures>>, WorldOK',
           pc = "crashed" => tables' = tables
    PROVE  IInv'
<1>1. /\ request \in Requests /\ CollsOK /\ StackOK /\ QueriesOK /\ QueryOK /\ ScopeOK /\ StatsOK /\ CrashOK
      /\ failures \in Nat /\ failures <= failures' /\ failures' \in Nat
  BY TypesAssumption DEF IInv, WorldOK
<1>2. Top' = Top /\ (Working' <=> Working) /\ (Stays' <=> Stays)
  BY DEF Top, Working, Stays
<1>3. Grows /\ StackOK' /\ QueriesOK' /\ CollsOK'
  <2>1. Working' => Working /\ (pc' = "include" => pc = "include")
    BY <1>2
  <2> QED
    BY <1>1, <1>2, <2>1, CallsStay
<1>4. QueryOK'
  BY <1>1, <1>2 DEF QueryOK
<1>5. ASSUME NEW e, IsStat(e)
      PROVE  IsStat(e)'
  BY <1>3, <1>5, StatStays
<1>6. StatsOK'
  <2>1. \A k \in DOMAIN stats : IsStat(stats[k])'
    <3> SUFFICES ASSUME NEW k \in DOMAIN stats
                 PROVE  IsStat(stats[k])'
      OBVIOUS
    <3>1. PICK e : e = stats[k]
      OBVIOUS
    <3>2. IsStat(e)
      BY <1>1, <3>1 DEF StatsOK
    <3>3. IsStat(e)'
      BY <1>5, <3>2
    <3> QED
      BY <3>1, <3>3
  <2>2. \A path : CountStays(path)' <=> CountStays(path)
    BY DEF CountStays
  <2> QED
    BY <1>1, <1>2, <2>1, <2>2 DEF StatsOK
<1>7. ScopeOK'
  <2> SUFFICES ASSUME Working
               PROVE  ScopeOK'
    BY <1>2 DEF ScopeOK
  <2>1. FiltersOf(Top.path, Top.type)' = FiltersOf(Top.path, Top.type)
        /\ TestsOf(Top.path, Top.type)' = TestsOf(Top.path, Top.type)
    BY <1>1, <1>2, <1>3, CallStays
  <2>2. scope.stat # <<>> => IsStat(scope.stat[1])'
    <3> SUFFICES ASSUME scope.stat # <<>>
                 PROVE  IsStat(scope.stat[1])'
      OBVIOUS
    <3>1. PICK e : e = scope.stat[1]
      OBVIOUS
    <3>2. IsStat(e)
      BY <1>1, <3>1 DEF ScopeOK
    <3>3. IsStat(e)'
      BY <1>5, <3>2
    <3> QED
      BY <3>1, <3>3
  <2>3. Refusable' <=> Refusable
    BY <1>2 DEF Refusable
  <2> QED
    BY <1>1, <1>2, <2>1, <2>2, <2>3 DEF ScopeOK
<1>8. CrashOK'
  <2> SUFFICES ASSUME pc = "crashed"
               PROVE  CrashOK'
    BY DEF CrashOK
  <2>1. Params' = Params /\ \A path : Above(path)' = Above(path)
    BY DEF Params, Above
  <2>2. \A path, t : FiltersAt(path, t)' = FiltersAt(path, t)
    BY <2>1 DEF FiltersAt
  <2>3. \A path, t : MayBeRefused(path, t)' <=> MayBeRefused(path, t)
    BY <2>1, <2>2 DEF MayBeRefused, Finds, IsPaged
  <2>4. Ask' = Ask /\ scope' = scope /\ Top' = Top /\ tables' = tables
    BY <1>2 DEF Ask
  <2>5. StatCrashes(Ask, Top.type)' <=> StatCrashes(Ask, Top.type)
    <3>1. Found' = Found
      BY <1>2, <2>4 DEF Found
    <3> QED
      BY <2>4, <3>1 DEF StatCrashes
  <2> QED
    BY <1>1, <1>2, <2>2, <2>3, <2>4, <2>5 DEF CrashOK
<1> QED
  BY <1>3, <1>4, <1>6, <1>7, <1>8 DEF IInv

\* What others write changes tables and nothing that was read off them.
LEMMA WriteSteps ==
    ASSUME IInv, Write
    PROVE  IInv'
<1>1. /\ writes < MaxWrites /\ writes' = writes + 1
      /\ UNCHANGED <<request, stack, scope, pc, colls, stats, failures>>
  BY DEF Write
<1>2. WorldOK
  BY DEF IInv
<1>3. PICK t \in Types : \E row \in Written[t] :
        LET others == {r \in tables[t] : r.id # row.id}
        IN \E rows \in {others, others \cup {row}} : tables' = [tables EXCEPT ![t] = rows]
  BY DEF Write
<1>4. PICK rows : tables' = [tables EXCEPT ![t] = rows] /\ IsTable(t, rows)
  <2>1. PICK row \in Written[t] :
          LET others == {r \in tables[t] : r.id # row.id}
          IN \E rows \in {others, others \cup {row}} : tables' = [tables EXCEPT ![t] = rows]
    BY <1>3
  <2>2. PICK others : others = {r \in tables[t] : r.id # row.id}
    OBVIOUS
  <2>3. PICK rows \in {others, others \cup {row}} : tables' = [tables EXCEPT ![t] = rows]
    BY <2>1, <2>2
  <2>4. PICK table : table = tables[t]
    OBVIOUS
  <2>5. row \in Row(t) /\ IsTable(t, table) /\ others \subseteq table /\ \A r \in others : r.id # row.id
    BY <1>2, <2>2, <2>4, StoredAssumption DEF WorldOK
  <2>6. rows \subseteq others \cup {row}
    OBVIOUS
  <2>7. IsTable(t, rows)
    BY <2>5, <2>6, WrittenTable
  <2> QED
    BY <2>3, <2>7
<1>5. DOMAIN tables' = Types /\ \A u \in Types : IsTable(u, tables'[u])
  BY <1>2, <1>4 DEF WorldOK
<1>6. writes' \in 0..MaxWrites
  BY <1>1, <1>2, TypesAssumption DEF WorldOK
<1>7. WorldOK'
  BY <1>1, <1>2, <1>5, <1>6 DEF WorldOK
<1>8. pc # "crashed"
  BY DEF Write
<1> QED
  BY <1>1, <1>7, <1>8, OthersStep

\* A request to begin with: one call, for what the client asks.
LEMMA InitHolds ==
    ASSUME Init
    PROVE  IInv
<1>1. /\ tables \in Stored /\ request \in Requests /\ stack = <<Frame(<<>>, request.type, Params)>>
      /\ scope = NewScope(Params, request.type) /\ pc = "filters" /\ writes = 0 /\ failures = 0
      /\ colls = <<>> /\ stats = <<>>
  BY DEF Init, Params
<1>2. PICK none : none = <<>>
  OBVIOUS
<1>3. none \in Seq(Nat) /\ Len(none) = 0 /\ DOMAIN none = {} /\ SubSeq(none, 1, 0) = none
  <2>1. none \in Seq(Nat) /\ Len(none) = 0 /\ DOMAIN none = {} /\ 0 \in 0..Len(none)
    BY <1>2
  <2>2. SubSeq(none, 1, 0) \in Seq(Nat) /\ Len(SubSeq(none, 1, 0)) = 0
    BY <2>1, Beginning
  <2> QED
    BY <1>2, <2>1, <2>2
<1>4. DOMAIN colls = {} /\ DOMAIN stats = {} /\ IsSeq(stats)
  <2>1. colls = none /\ stats = none
    BY <1>1, <1>2
  <2>2. IsSeq(none)
    BY <1>2, NothingIn
  <2> QED
    BY <1>3, <2>1, <2>2
<1>5. PICK t, f : t = request.type /\ f = Frame(none, t, Params)
  OBVIOUS
<1>6. t \in Types /\ f.path = none /\ f.type = t /\ f.query = Consumed(Params, t) /\ f.next = 1 /\ IsFrame(f)
  <2>1. t \in Types
    BY <1>1, <1>5, RequestsAssumption
  <2> QED
    BY <1>5, <2>1 DEF Frame, IsFrame
<1>7. IsSeq(stack) /\ DOMAIN stack = 1..1 /\ stack[1] = f /\ stack # <<>> /\ Top = f
  <2>1. PICK s : s = <<f>>
    OBVIOUS
  <2>2. s \in Seq({f}) /\ Len(s) = 1 /\ DOMAIN s = 1..1 /\ s[1] = f
    BY <2>1
  <2>3. IsSeq(s) /\ s # <<>> /\ Last(s) = f
    BY <2>2, SequenceOf, NotEmpty DEF Last
  <2>4. stack = s
    BY <1>1, <1>2, <1>5, <2>1
  <2> QED
    BY <2>2, <2>3, <2>4 DEF Top
<1>8. WorldOK
  <2>1. \A db \in Stored : DOMAIN db = Types /\ \A u \in Types : IsTable(u, db[u])
    BY StoredAssumption
  <2>2. 0 \in 0..MaxWrites /\ 0 \in 0..MaxFailures
    BY TypesAssumption
  <2> QED
    BY <1>1, <2>1, <2>2 DEF WorldOK
<1>9. IsPlace(none, t)
  <2>1. \A n \in 0..(Len(none) - 1) : FALSE
    BY <1>3
  <2> QED
    BY <1>2, <1>3, <1>5, <1>6, <2>1 DEF IsPlace
<1>10. StackOK
  <2>1. \A j \in 1..1 : stack[j].path = SubSeq(f.path, 1, j - 1)
    <3>1. \A j \in 1..1 : j = 1 /\ j - 1 = 0
      OBVIOUS
    <3> QED
      BY <1>3, <1>6, <1>7, <3>1
  <2>2. \A k \in 1..1 : k = 1 /\ ~(k > 1) /\ k - 1 = 0
    OBVIOUS
  <2>3. ASSUME NEW k \in DOMAIN stack
        PROVE  /\ IsFrame(stack[k]) /\ IsPlace(stack[k].path, stack[k].type) /\ Len(stack[k].path) = k - 1
               /\ stack[k].next \in Nat \ {0}
               /\ \A j \in 1..k : stack[j].path = SubSeq(stack[k].path, 1, j - 1)
               /\ ~(k > 1) /\ stack[k].path \notin DOMAIN colls
               /\ \A i \in Nat : Append(stack[k].path, i) \notin DOMAIN colls
    BY <1>3, <1>4, <1>6, <1>7, <1>9, <2>1, <2>2
  <2> QED
    BY <1>1, <1>4, <1>7, <2>3 DEF StackOK, IsFrame
<1>11. IsCopy(Params, {}, FALSE)
  BY <1>1, ClientsCopy
<1>12. QueriesOK
  <2>1. IsCopy(f.query, {} \cup {t}, FALSE)
    BY <1>6, <1>11, ConsumedCopy
  <2>2. ASSUME NEW k \in DOMAIN stack
        PROVE  stack[k].query = f.query /\ {stack[j].type : j \in 1..k} = {} \cup {t} /\ (k > 1) = FALSE
    BY <1>6, <1>7
  <2> QED
    BY <2>1, <2>2 DEF QueriesOK
<1>13. /\ IsScope(scope) /\ scope.page = <<>> /\ scope.stat = <<>> /\ scope.tests = {}
       /\ scope.todo = Filters(Params, t)
       /\ DOMAIN scope.asked \subseteq Nat /\ \A k \in DOMAIN scope.asked : scope.asked[k].type \in {None, t}
       /\ scope.query \in B!Query /\ scope.query.select = <<>> /\ scope.query.having = <<>>
       /\ scope.query.order = <<>> /\ scope.query.clauses = {}
       /\ B!Conditions(scope.query) = {} /\ B!Marks(scope.query) = 1..Len(scope.query.params)
  <2>1. PICK q, s : q = Params /\ s = scope
    OBVIOUS
  <2>2. DOMAIN q \subseteq Nat /\ s = NewScope(q, t)
    BY <1>1, <1>5, <1>11, <2>1 DEF IsCopy, IsQuery
  <2>3. /\ IsScope(s) /\ s.page = <<>> /\ s.stat = <<>> /\ s.tests = {} /\ s.todo = Filters(q, t)
        /\ DOMAIN s.asked \subseteq Nat /\ \A k \in DOMAIN s.asked : s.asked[k].type \in {None, t}
        /\ s.query \in B!Query /\ s.query.select = <<>> /\ s.query.having = <<>>
        /\ s.query.order = <<>> /\ s.query.clauses = {}
        /\ B!Conditions(s.query) = {} /\ B!Marks(s.query) = 1..Len(s.query.params)
    BY <2>2, NothingYet
  <2> QED
    BY <2>1, <2>3
<1>14. ~Stays
  BY <1>13 DEF Stays
<1>15. QueryOK
  BY <1>13, <1>14 DEF QueryOK, IsScope
<1>16. ScopeOK
  <2>1. scope.todo = FiltersOf(none, t)
    BY <1>1, <1>2, <1>5, <1>13, FiltersOfClient
  <2>2. scope.tests \cup {TestOf(t, g) : g \in scope.todo} = TestsOf(none, t)
    BY <1>13, <2>1 DEF TestsOf
  <2> QED
    BY <1>1, <1>6, <1>7, <1>13, <1>14, <2>1, <2>2 DEF ScopeOK
<1>17. CollsOK /\ StatsOK /\ CrashOK
  BY <1>1, <1>4 DEF CollsOK, StatsOK, CrashOK
<1> QED
  BY <1>8, <1>10, <1>12, <1>15, <1>16, <1>17 DEF IInv

\* Every step keeps the invariant.
LEMMA StepsHold ==
    ASSUME IInv, [Next]_vars
    PROVE  IInv'
<1>1. CASE ApplyFilter
  BY <1>1, FilterSteps
<1>2. CASE FiltersApplied
  BY <1>2, FiltersAppliedSteps
<1>3. CASE Count \/ CountFails
  BY <1>3, CountSteps
<1>4. CASE Measure
  BY <1>4, MeasureSteps
<1>5. CASE MeasureCrashes
  BY <1>5, MeasureCrashesSteps
<1>6. CASE NoStat
  BY <1>6, NoStatSteps
<1>7. CASE StatsMade
  BY <1>7, StatsMadeSteps
<1>8. CASE RunRows
  BY <1>8, RunRowsSteps
<1>9. CASE RowsFail
  BY <1>9, RowsFailSteps
<1>10. CASE Include
  BY <1>10, IncludeSteps
<1>11. CASE SkipInclude
  BY <1>11, SkipIncludeSteps
<1>12. CASE Return
  BY <1>12, ReturnSteps
<1>13. CASE Write
  BY <1>13, WriteSteps
<1>14. CASE UNCHANGED vars
  <2>1. UNCHANGED <<tables, request, stack, scope, pc, colls, stats, writes, failures>>
    BY <1>14 DEF vars
  <2>2. WorldOK'
    BY <2>1 DEF IInv, WorldOK
  <2> QED
    BY <2>1, <2>2, OthersStep
<1> QED
  BY <1>1, <1>2, <1>3, <1>4, <1>5, <1>6, <1>7, <1>8, <1>9, <1>10, <1>11, <1>12, <1>13, <1>14 DEF Next

-----------------------------------------------------------------------------
(* Theorems. *)

\* What the calls, their copies of the query string, their statements and their
\* answers have to do with one another and with the request, at every moment.
THEOREM ResourceInvariant == Spec => []IInv
<1>1. Init => IInv
  BY InitHolds
<1>2. IInv /\ [Next]_vars => IInv'
  BY StepsHold
<1> QED
  BY <1>1, <1>2, PTL DEF Spec

\* A table never holds two rows of an id, whatever others write into it, a call's
\* place is as long as it is deep, and collections and stats are of their types.
THEOREM TypesHold == Spec => []TypeOK
<1>1. IInv => TypeOK
  BY PropertiesFollow
<1> QED
  BY <1>1, ResourceInvariant, PTL

\* What stands in "included" is related to something of the collection above it,
\* for whatever models, tables and query strings: but for the cases that the
\* property names, an include brings in nothing that nobody names.
THEOREM LinkageHolds == Spec => []FullLinkage
<1>1. IInv => FullLinkage
  BY PropertiesFollow
<1> QED
  BY <1>1, ResourceInvariant, PTL

\* An instance is given exactly the rows that the models' relation links it to and
\* the client's filters let through, as its include's statement saw them: others
\* may have written since the base was read.
THEOREM IncludesHold == Spec => []IncludesAreTheLinked
<1>1. IInv => IncludesAreTheLinked
  BY PropertiesFollow
<1> QED
  BY <1>1, ResourceInvariant, PTL

\* However deep an include, a filter written for its type reaches its statement,
\* through all the copies of the query string; and find's id does not displace it.
THEOREM FiltersHold == Spec => []FiltersReachTheirType
<1>1. IInv => FiltersReachTheirType
  BY PropertiesFollow
<1> QED
  BY <1>1, ResourceInvariant, PTL

\* A stat ranges over what filters and relations select at its own statement; and
\* meta's total is the list's own unless an include makes one of the same name.
THEOREM StatsHold == Spec => []StatsRangeOverFiltered
<1>1. IInv => StatsRangeOverFiltered
  BY PropertiesFollow
<1> QED
  BY <1>1, ResourceInvariant, PTL

\* Sparse fieldsets survive every copy of the query string: each instance shows
\* the attributes listed for its type, none if the type is listed behind another.
THEOREM FieldsHold == Spec => []FieldsAsAsked
<1>1. IInv => FieldsAsAsked
  BY PropertiesFollow
<1> QED
  BY <1>1, ResourceInvariant, PTL

\* The queries that the resources build are accepted by the server, and nothing
\* crashes, but for the reasons listed.
THEOREM RefusalsHold == Spec => []RefusedForAReason
<1>1. IInv => RefusedForAReason
  BY PropertiesFollow
<1> QED
  BY <1>1, ResourceInvariant, PTL

=============================================================================
