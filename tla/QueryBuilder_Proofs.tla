------------------------ MODULE QueryBuilder_Proofs ------------------------
(***************************************************************************)
(* Theorems about QueryBuilder, for any columns, values and bounds.         *)
(***************************************************************************)
EXTENDS QueryBuilder, TLAPS

\* The values of a sequence stand in the parameters where its condition's
\* marks say.
Own(c, params) ==
    \A k \in DOMAIN c.marks : c.marks[k] \in DOMAIN params /\ params[c.marks[k]] = c.given[k]

\* A parameter that no placeholder mentions, which the server refuses.
Unmentioned(conditions, params, p) ==
    p \in DOMAIN params /\ \A c \in conditions : \A k \in DOMAIN c.marks : c.marks[k] # p

\* Why BoundToOwnValue holds: marks are never beyond the parameters there are,
\* and a condition whose marks are not its own values' leaves a parameter
\* unmentioned, which no later condition can make good.
Numbering(conditions, params) ==
    /\ \A c \in conditions : \A k \in DOMAIN c.marks : c.marks[k] \in DOMAIN params
    /\ \/ \A c \in conditions : Own(c, params)
       \/ \E p \in Nat : Unmentioned(conditions, params, p)

\* The first handler of the arena frees what there is, and disarms the others.
Freeing ==
    LET conditions == Len(query.where) + Len(query.having) IN
    /\ phase \in {"building", "crashed"} => query.owned /\ ran = 0 /\ freed = 0
    /\ query.owned <=> ran = 0
    /\ phase = "freeing" => ran < handlers
    /\ freed = IF ran = 0 THEN 0 ELSE conditions

IInv ==
    /\ TypeOK
    /\ Len(query.where) <= MaxWhere + handlers
    /\ Numbering(Conditions(query), query.params)
    /\ AggregatesDoNotStay
    /\ Freeing

-----------------------------------------------------------------------------
(* A new condition. *)

\* The elements of a concatenation are those of its parts.
LEMMA RangeOfConcat ==
    ASSUME NEW S, NEW w \in Seq(S), NEW h \in Seq(S)
    PROVE  RangeOf(w \o h) = RangeOf(w) \cup RangeOf(h)
<1>1. /\ Len(w) \in Nat /\ Len(h) \in Nat
      /\ DOMAIN w = 1..Len(w) /\ DOMAIN h = 1..Len(h) /\ DOMAIN (w \o h) = 1..(Len(w) + Len(h))
  OBVIOUS
<1>2. \A k \in 1..Len(w) : (w \o h)[k] = w[k]
  OBVIOUS
<1>3. \A k \in 1..Len(h) : (w \o h)[k + Len(w)] = h[k]
  OBVIOUS
<1>4. \A k \in 1..(Len(w) + Len(h)) : k \in 1..Len(w) \/ (k - Len(w) \in 1..Len(h) /\ k = (k - Len(w)) + Len(w))
  BY <1>1
<1>5. \A k \in 1..Len(h) : k + Len(w) \in 1..(Len(w) + Len(h))
  BY <1>1
<1>6. \A k \in 1..Len(w) : k \in 1..(Len(w) + Len(h))
  BY <1>1
<1>7. RangeOf(w \o h) \subseteq RangeOf(w) \cup RangeOf(h)
  <2> SUFFICES ASSUME NEW k \in 1..(Len(w) + Len(h))
               PROVE  (w \o h)[k] \in RangeOf(w) \cup RangeOf(h)
    BY <1>1 DEF RangeOf
  <2> QED BY <1>1, <1>2, <1>3, <1>4 DEF RangeOf
<1>8. RangeOf(w) \cup RangeOf(h) \subseteq RangeOf(w \o h)
  BY <1>1, <1>2, <1>3, <1>5, <1>6 DEF RangeOf
<1> QED BY <1>7, <1>8

\* The conditions of a query are those of where and of having.
LEMMA ConditionsUnion ==
    ASSUME NEW q \in Query
    PROVE  Conditions(q) = RangeOf(q.where) \cup RangeOf(q.having)
<1>1. q.where \in Seq(Condition) /\ q.having \in Seq(Condition)
  BY DEF Query
<1> QED BY <1>1, RangeOfConcat DEF Conditions

\* Appending adds one element.
LEMMA RangeOfAppend ==
    ASSUME NEW S, NEW s \in Seq(S), NEW x \in S
    PROVE  RangeOf(Append(s, x)) = RangeOf(s) \cup {x}
<1>1. /\ Len(s) \in Nat /\ DOMAIN s = 1..Len(s) /\ DOMAIN Append(s, x) = 1..(Len(s) + 1)
      /\ \A k \in 1..Len(s) : Append(s, x)[k] = s[k]
      /\ Append(s, x)[Len(s) + 1] = x
  OBVIOUS
<1> QED BY <1>1 DEF RangeOf

\* r is q with the condition c, and what was given with it.
Added(q, c, given, r) ==
    \/ r = [q EXCEPT !.where = Append(@, c), !.params = @ \o given]
    \/ r = [q EXCEPT !.having = Append(@, c), !.params = @ \o given]

\* What a condition that is added changes of a query, and what it does not.
LEMMA WithCondition ==
    ASSUME NEW q \in Query, NEW c \in Condition, NEW given \in Seq(Values), NEW r,
           Added(q, c, given, r)
    PROVE  /\ r \in Query /\ r.params = q.params \o given
           /\ Conditions(r) = Conditions(q) \cup {c}
           /\ r.select = q.select /\ r.owned = q.owned
           /\ \/ r.where = Append(q.where, c) /\ r.having = q.having
              \/ r.where = q.where /\ r.having = Append(q.having, c)
<1>1. /\ q.params \in Seq(Values) /\ q.where \in Seq(Condition) /\ q.having \in Seq(Condition)
  BY DEF Query
<1>2. /\ Append(q.where, c) \in Seq(Condition) /\ Append(q.having, c) \in Seq(Condition)
      /\ q.params \o given \in Seq(Values)
  BY <1>1
<1>3. /\ r.params = q.params \o given /\ r.select = q.select /\ r.owned = q.owned
      /\ \/ r.where = Append(q.where, c) /\ r.having = q.having
         \/ r.where = q.where /\ r.having = Append(q.having, c)
  BY DEF Added, Query
<1>4. r \in Query
  <2> DEFINE w == Append(q.where, c)
             h == Append(q.having, c)
             p == q.params \o given
  <2>1. w \in Seq(Condition) /\ h \in Seq(Condition) /\ p \in Seq(Values)
    BY <1>2
  <2>2. r = [q EXCEPT !.where = w, !.params = p] \/ r = [q EXCEPT !.having = h, !.params = p]
    BY DEF Added
  <2> HIDE DEF w, h, p
  <2> QED BY <2>1, <2>2 DEF Query
<1>5. /\ RangeOf(Append(q.where, c)) = RangeOf(q.where) \cup {c}
      /\ RangeOf(Append(q.having, c)) = RangeOf(q.having) \cup {c}
  BY <1>1, RangeOfAppend
<1>6. Conditions(r) = Conditions(q) \cup {c}
  BY <1>3, <1>4, <1>5, ConditionsUnion
<1> QED BY <1>3, <1>4, <1>6

\* The marks of a condition for n parameters that are already there.
Marked(c, given, n) ==
    /\ c.given = given
    /\ \/ c.marks = [k \in DOMAIN given |-> n + 1]
       \/ c.marks = [k \in DOMAIN given |-> n + k]

\* Numbering a condition behind the parameters there are, all with one number
\* or one by one, keeps the numbering.
LEMMA NumberingKept ==
    ASSUME NEW C, NEW params \in Seq(Values), NEW given \in Seq(Values), NEW c,
           Numbering(C, params), Marked(c, given, Len(params))
    PROVE  Numbering(C \cup {c}, params \o given)
<1>0. /\ c.given = given
      /\ \/ c.marks = [k \in DOMAIN given |-> Len(params) + 1]
         \/ c.marks = [k \in DOMAIN given |-> Len(params) + k]
  BY DEF Marked
<1> DEFINE n == Len(params)
           all == params \o given
<1>1. /\ n \in Nat /\ Len(given) \in Nat /\ DOMAIN params = 1..n
      /\ DOMAIN given = 1..Len(given) /\ DOMAIN all = 1..(n + Len(given))
      /\ \A k \in 1..n : all[k] = params[k]
      /\ \A k \in 1..Len(given) : all[n + k] = given[k]
  OBVIOUS
<1>2. DOMAIN c.marks = 1..Len(given)
  BY <1>0, <1>1
<1>3. \A k \in DOMAIN c.marks : c.marks[k] \in n+1..n+Len(given)
  BY <1>0, <1>1, <1>2
<1>4. \A d \in C \cup {c} : \A k \in DOMAIN d.marks : d.marks[k] \in DOMAIN all
  <2>1. DOMAIN params \subseteq DOMAIN all /\ n+1..n+Len(given) \subseteq DOMAIN all
    BY <1>1
  <2> QED BY <2>1, <1>3 DEF Numbering
<1>5. CASE \E p \in Nat : Unmentioned(C, params, p)
  <2>1. PICK p \in Nat : Unmentioned(C, params, p)
    BY <1>5
  <2>2. p \in 1..n
    BY <1>1, <2>1 DEF Unmentioned
  <2>3. \A k \in DOMAIN c.marks : c.marks[k] # p
    BY <1>1, <1>3, <2>2
  <2>4. Unmentioned(C \cup {c}, all, p)
    BY <1>1, <2>1, <2>2, <2>3 DEF Unmentioned
  <2> QED BY <1>4, <2>1, <2>4 DEF Numbering
<1>6. CASE \A d \in C : Own(d, params)
  <2>1. \A d \in C : Own(d, all)
    BY <1>1, <1>6 DEF Own
  <2>2. CASE c.marks = [k \in DOMAIN given |-> n + k] \/ Len(given) <= 1
    <3>1. \A k \in DOMAIN c.marks : c.marks[k] = n + k
      BY <1>0, <1>1, <1>2, <2>2
    <3>2. Own(c, all)
      BY <1>0, <1>1, <1>2, <3>1 DEF Own
    <3> QED BY <1>4, <2>1, <3>2 DEF Numbering
  \* One number for several placeholders: nobody mentions the second value.
  <2>3. CASE c.marks = [k \in DOMAIN given |-> n + 1] /\ Len(given) > 1
    <3>1. n + 2 \in DOMAIN all /\ n + 2 \in Nat /\ n + 2 \notin DOMAIN params
      BY <1>1, <2>3
    <3>2. \A k \in DOMAIN c.marks : c.marks[k] # n + 2
      BY <1>1, <2>3
    <3>3. Unmentioned(C \cup {c}, all, n + 2)
      BY <3>1, <3>2 DEF Unmentioned, Numbering
    <3> QED BY <1>4, <3>1, <3>3 DEF Numbering
  <2> QED BY <1>0, <1>1, <2>2, <2>3
<1> QED BY <1>5, <1>6 DEF Numbering

\* The three ways to add a condition.
LEMMA BoundKept ==
    ASSUME NEW q \in Query, NEW given \in Seq(Values), NEW r,
           Numbering(Conditions(q), q.params),
           r \in {WithWhere(q, given), WithHaving(q, given), WithWhereIn(q, given)}
    PROVE  /\ r \in Query /\ r.select = q.select /\ r.owned = q.owned
           /\ Numbering(Conditions(r), r.params)
           /\ Len(r.where) <= Len(q.where) + 1 /\ Len(r.having) <= Len(q.having) + 1
           /\ r \in {WithWhere(q, given), WithWhereIn(q, given)} => r.having = q.having
           /\ r = WithHaving(q, given) => r.where = q.where
<1> DEFINE c == IF r = WithWhereIn(q, given)
                THEN [marks |-> [k \in DOMAIN given |-> Len(q.params) + k],
                      given |-> given, empty |-> given = <<>>]
                ELSE Bound(q, given)
<1>1. q.params \in Seq(Values) /\ q.where \in Seq(Condition) /\ q.having \in Seq(Condition)
  BY DEF Query
<1>2. /\ [k \in DOMAIN given |-> Len(q.params) + k] \in Seq(Nat \ {0})
      /\ [k \in DOMAIN given |-> Len(q.params) + 1] \in Seq(Nat \ {0})
  <2>1. Len(q.params) \in Nat /\ Len(given) \in Nat /\ DOMAIN given = 1..Len(given)
    BY <1>1
  <2>2. \A k \in 1..Len(given) :
          Len(q.params) + k \in Nat \ {0} /\ Len(q.params) + 1 \in Nat \ {0}
    BY <2>1
  <2>3. ASSUME NEW f \in [1..Len(given) -> Nat \ {0}] PROVE f \in Seq(Nat \ {0})
    BY <2>1
  <2> QED BY <2>1, <2>2, <2>3
<1>3. c \in Condition
  <2>1. Bound(q, given) \in Condition
    BY <1>2 DEF Condition, Bound
  <2>2. (given = <<>>) \in BOOLEAN
    OBVIOUS
  <2> QED BY <1>2, <2>1, <2>2 DEF Condition
<1>4. Marked(c, given, Len(q.params))
  BY DEF Bound, Marked
<1>5. Added(q, c, given, r)
  BY DEF WithWhere, WithHaving, WithWhereIn, Added
<1>6. /\ r \in {WithWhere(q, given), WithWhereIn(q, given)} => r.having = q.having
      /\ r = WithHaving(q, given) => r.where = q.where
  BY DEF WithWhere, WithHaving, WithWhereIn, Query
<1> HIDE DEF c
<1>7. /\ r \in Query /\ r.params = q.params \o given /\ Conditions(r) = Conditions(q) \cup {c}
      /\ r.select = q.select /\ r.owned = q.owned
      /\ \/ r.where = Append(q.where, c) /\ r.having = q.having
         \/ r.where = q.where /\ r.having = Append(q.having, c)
  BY <1>3, <1>5, WithCondition
<1>8. Numbering(Conditions(r), r.params)
  BY <1>1, <1>4, <1>7, NumberingKept
<1>9. Len(r.where) <= Len(q.where) + 1 /\ Len(r.having) <= Len(q.having) + 1
  BY <1>1, <1>3, <1>7
<1> QED BY <1>6, <1>7, <1>8, <1>9

-----------------------------------------------------------------------------
(* The invariant. *)

\* A step on the selected names alone.
LEMMA SelectReplaced ==
    ASSUME NEW q \in Query, NEW s \in Seq(Columns \cup Aggregates)
    PROVE  LET r == [q EXCEPT !.select = s] IN
           /\ r \in Query /\ r.where = q.where /\ r.having = q.having
           /\ r.params = q.params /\ r.owned = q.owned /\ r.select = s
BY DEF Query

\* A new query has nothing to number.
LEMMA InitInv == Init => IInv
<1> SUFFICES ASSUME Init PROVE IInv
  OBVIOUS
<1>1. NewQuery \in Query
  BY DEF NewQuery, Query
<1>2. /\ query = NewQuery /\ phase = "building" /\ handlers = 0 /\ ran = 0 /\ freed = 0
      /\ failed = FALSE
  BY DEF Init
<1>3. /\ query.where = <<>> /\ query.having = <<>> /\ query.select = <<>> /\ query.owned = TRUE
  BY <1>2 DEF NewQuery
<1>4. Conditions(query) = {}
  BY <1>1, <1>2, <1>3, ConditionsUnion DEF RangeOf
<1>5. TypeOK /\ Len(query.where) <= MaxWhere + handlers
  <2>1. Len(query.where) = 0 /\ Len(query.having) = 0 /\ query \in Query
    BY <1>1, <1>2, <1>3
  <2>2. MaxWhere \in Nat /\ MaxHaving \in Nat /\ MaxStatements \in Nat
    BY QueryAssumption
  <2>3. /\ handlers \in 0..MaxStatements /\ ran \in 0..handlers
        /\ freed \in Nat
    BY <1>2, <2>2, SMT
  <2>3a. failed \in BOOLEAN
    BY <1>2
  <2>4. 0 <= MaxWhere + MaxStatements /\ 0 <= MaxHaving /\ 0 <= MaxWhere + 0
    BY <2>2
  <2> QED BY <1>2, <2>1, <2>3, <2>3a, <2>4 DEF TypeOK
<1>6. Numbering(Conditions(query), query.params)
  BY <1>4 DEF Numbering
<1>7. AggregatesDoNotStay
  BY <1>3 DEF AggregatesDoNotStay, RangeOf
<1>8. Freeing
  BY <1>2, <1>3 DEF Freeing
<1> QED BY <1>5, <1>6, <1>7, <1>8 DEF IInv

\* Lists of values are what the calls that bind are given.
LEMMA UptoIsSeq ==
    ASSUME NEW given \in Upto(MaxMarks, Values)
    PROVE  given \in Seq(Values)
<1>1. PICK k \in 0..MaxMarks : given \in [1..k -> Values]
  BY DEF Upto
<1> QED BY <1>1, QueryAssumption

\* A step that adds a condition while the query is built.
LEMMA BindingKeepsInv ==
    ASSUME IInv, Building,
           NEW given \in Seq(Values),
           \/ query' = WithWhere(query, given)
           \/ query' = WithWhereIn(query, given)
           \/ query' = WithHaving(query, given) /\ Len(query.having) < MaxHaving,
           query' # WithHaving(query, given) => Len(query.where) < MaxWhere + handlers',
           handlers' = handlers \/ (handlers < MaxStatements /\ handlers' = handlers + 1),
           UNCHANGED <<phase, ran, freed, failed>>
    PROVE  IInv'
<1>1. /\ query \in Query /\ handlers \in 0..MaxStatements /\ ran \in 0..handlers
      /\ Numbering(Conditions(query), query.params)
  BY DEF IInv, TypeOK
<1>2. /\ query' \in Query /\ query'.select = query.select /\ query'.owned = query.owned
      /\ Numbering(Conditions(query'), query'.params)
      /\ Len(query'.where) <= Len(query.where) + 1 /\ Len(query'.having) <= Len(query.having) + 1
      /\ query' \in {WithWhere(query, given), WithWhereIn(query, given)} => query'.having = query.having
      /\ query' = WithHaving(query, given) => query'.where = query.where
  BY <1>1, BoundKept
<1>3. /\ Len(query.where) \in Nat /\ Len(query.having) \in Nat
      /\ Len(query'.where) \in Nat /\ Len(query'.having) \in Nat
  BY <1>1, <1>2 DEF Query
<1>4. Len(query'.where) <= MaxWhere + handlers' /\ Len(query'.having) <= MaxHaving
  <2>1. /\ Len(query.where) <= MaxWhere + handlers /\ Len(query.having) <= MaxHaving
        /\ MaxWhere \in Nat /\ MaxHaving \in Nat /\ MaxStatements \in Nat /\ handlers \in Nat
    BY QueryAssumption DEF IInv, TypeOK
  <2>2. CASE query' = WithHaving(query, given)
    <3>1. query'.where = query.where
      BY <1>2, <2>2
    <3>2. Len(query'.having) <= MaxHaving
      BY <1>2, <1>3, <2>1
    <3> QED BY <1>3, <2>1, <3>1, <3>2
  <2>3. CASE query' # WithHaving(query, given)
    <3>1. query'.having = query.having
      BY <1>2, <2>3
    <3>2. Len(query.where) < MaxWhere + handlers'
      BY <2>3
    <3> QED BY <1>2, <1>3, <2>1, <3>1, <3>2
  <2> QED BY <2>2, <2>3
<1>5. TypeOK'
  BY <1>1, <1>2, <1>3, <1>4, QueryAssumption DEF IInv, TypeOK
<1>6. AggregatesDoNotStay'
  BY <1>2 DEF IInv, AggregatesDoNotStay
<1>7. Freeing'
  BY <1>2 DEF IInv, Freeing, Building
<1> QED BY <1>2, <1>4, <1>5, <1>6, <1>7 DEF IInv

\* A step that leaves the conditions and their parameters alone.
LEMMA OtherStepKeepsInv ==
    ASSUME IInv, Building,
           query' \in Query, query'.where = query.where, query'.having = query.having,
           query'.params = query.params, query'.owned = query.owned,
           AggregatesDoNotStay',
           phase' \in {"building", "crashed", "done", "freeing"},
           phase' = "freeing" => handlers' > 0,
           failed' \in BOOLEAN,
           handlers' = handlers \/ (handlers < MaxStatements /\ handlers' = handlers + 1),
           UNCHANGED <<ran, freed>>
    PROVE  IInv'
<1>1. /\ query \in Query /\ handlers \in 0..MaxStatements /\ ran \in 0..handlers
      /\ Numbering(Conditions(query), query.params) /\ MaxStatements \in Nat
      /\ Len(query.where) \in Nat /\ MaxWhere \in Nat
  BY QueryAssumption DEF IInv, TypeOK, Query
<1>2. Conditions(query') = Conditions(query)
  BY DEF Conditions
<1>3. TypeOK'
  BY <1>1 DEF IInv, TypeOK
<1>4. Numbering(Conditions(query'), query'.params)
  BY <1>1, <1>2
<1>5. Len(query'.where) <= MaxWhere + handlers'
  BY <1>1 DEF IInv
<1>6. Freeing'
  BY DEF IInv, Freeing, Building
<1> QED BY <1>3, <1>4, <1>5, <1>6 DEF IInv

\* The invariant is inductive.
LEMMA NextInv == IInv /\ [Next]_vars => IInv'
<1> SUFFICES ASSUME IInv, [Next]_vars PROVE IInv'
  OBVIOUS
<1>0. /\ query \in Query /\ query.select \in Seq(Columns \cup Aggregates)
      /\ query.where \in Seq(Condition) /\ query.having \in Seq(Condition)
      /\ handlers \in Nat /\ failed \in BOOLEAN
      /\ phase \in {"building", "freeing", "done", "crashed"}
      /\ {MaxWhere, MaxHaving, MaxStatements} \subseteq Nat
  BY QueryAssumption DEF IInv, TypeOK, Query
<1>1. CASE Select
  <2>1. PICK c \in Columns : query' = WithSelect(query, c)
    BY <1>1 DEF Select
  <2>2. /\ query' \in Query /\ query'.where = query.where /\ query'.having = query.having
        /\ query'.params = query.params /\ query'.owned = query.owned
        /\ query'.select = Append(query.select, c)
    <3>1. Append(query.select, c) \in Seq(Columns \cup Aggregates)
      BY <1>0
    <3> QED BY <1>0, <2>1, <3>1, SelectReplaced DEF WithSelect
  <2>3. RangeOf(query'.select) = RangeOf(query.select) \cup {c} /\ c \notin Aggregates
    BY <1>0, <2>2, RangeOfAppend, QueryAssumption DEF Aggregates
  <2>4. AggregatesDoNotStay'
    BY <1>1, <2>3 DEF Select, Building, IInv, AggregatesDoNotStay
  <2> QED BY <1>0, <1>1, <2>2, <2>4, OtherStepKeepsInv DEF Select, Building
<1>2. CASE Where
  <2>1. PICK given \in Seq(Values) : query' = WithWhere(query, given)
    BY <1>2, UptoIsSeq DEF Where
  <2> QED BY <1>0, <1>2, <2>1, BindingKeepsInv DEF Where
<1>3. CASE WhereIn
  <2>1. PICK given \in Seq(Values) : query' = WithWhereIn(query, given)
    BY <1>3, UptoIsSeq DEF WhereIn
  <2> QED BY <1>0, <1>3, <2>1, BindingKeepsInv DEF WhereIn
<1>4. CASE Having
  <2>1. PICK given \in Seq(Values) : query' = WithHaving(query, given)
    BY <1>4, UptoIsSeq DEF Having
  <2> QED BY <1>4, <2>1, BindingKeepsInv DEF Having
<1>5. CASE Order
  <2>1. PICK c \in Columns, d \in Directions \cup {"UP"} : query' = WithOrder(query, c, d)
    BY <1>5 DEF Order
  <2>2. /\ query' \in Query /\ query'.where = query.where /\ query'.having = query.having
        /\ query'.params = query.params /\ query'.owned = query.owned
        /\ query'.select = query.select
    <3>1. query.order \in Seq(Columns \X Directions)
      BY <1>0 DEF Query
    <3>2. CASE d \in Directions
      <4>1. Append(query.order, <<c, d>>) \in Seq(Columns \X Directions)
        BY <3>1, <3>2
      <4> DEFINE o == Append(query.order, <<c, d>>)
      <4>2. query' = [query EXCEPT !.order = o] /\ o \in Seq(Columns \X Directions)
        BY <2>1, <3>2, <4>1 DEF WithOrder
      <4> HIDE DEF o
      <4> QED BY <1>0, <4>2 DEF Query
    <3>3. CASE d \notin Directions
      BY <1>0, <2>1, <3>3 DEF WithOrder
    <3> QED BY <3>2, <3>3
  <2>3. AggregatesDoNotStay'
    BY <1>5, <2>2 DEF Order, Building, IInv, AggregatesDoNotStay
  <2> QED BY <1>0, <1>5, <2>2, <2>3, OtherStepKeepsInv DEF Order, Building
<1>6. CASE SetClause
  <2>1. PICK clause \in Clauses : query' = WithClause(query, clause)
    BY <1>6 DEF SetClause
  <2>2. /\ query' \in Query /\ query'.where = query.where /\ query'.having = query.having
        /\ query'.params = query.params /\ query'.owned = query.owned
        /\ query'.select = query.select
    BY <1>0, <2>1 DEF WithClause, Query
  <2>3. AggregatesDoNotStay'
    BY <1>6, <2>2 DEF SetClause, Building, IInv, AggregatesDoNotStay
  <2> QED BY <1>0, <1>6, <2>2, <2>3, OtherStepKeepsInv DEF SetClause, Building
<1>7. CASE All
  <2>1. AggregatesDoNotStay'
    BY <1>7 DEF All, ToSql, Building, IInv, AggregatesDoNotStay
  <2> QED BY <1>0, <1>7, <2>1, OtherStepKeepsInv DEF All, ToSql, Building
<1>8. CASE Find
  <2>1. PICK v \in Values : query' = WithWhere(query, <<v>>)
    BY <1>8 DEF Find
  <2>2. <<v>> \in Seq(Values) /\ Len(query.where) < MaxWhere + handlers'
    BY <1>0, <1>8 DEF Find, ToSql, IInv
  <2> QED BY <1>8, <2>1, <2>2, BindingKeepsInv DEF Find, ToSql
<1>9. ASSUME NEW a \in Aggregates \cup {"none"}, query' = Reset(WithAggregate(query, a)) \/ query' = Reset(query),
             ToSql, UNCHANGED <<phase, ran, freed, failed>>
      PROVE  IInv'
  <2>1. /\ query' \in Query /\ query'.where = query.where /\ query'.having = query.having
        /\ query'.params = query.params /\ query'.owned = query.owned
        /\ query'.select = <<>>
    <3>1. <<>> \in Seq(Columns \cup Aggregates)
      OBVIOUS
    <3>2. query' = [query EXCEPT !.select = <<>>]
      BY <1>0, <1>9 DEF WithAggregate, Reset, Query
    <3> QED BY <1>0, <3>1, <3>2, SelectReplaced
  <2>2. AggregatesDoNotStay'
    BY <2>1 DEF AggregatesDoNotStay, RangeOf
  <2> QED BY <1>0, <1>9, <2>1, <2>2, OtherStepKeepsInv DEF ToSql, Building
<1>10. CASE Aggregate
  BY <1>9, <1>10 DEF Aggregate
<1>11. CASE UnknownStat
  BY <1>9, <1>11 DEF UnknownStat
<1>12. ASSUME NEW a \in Aggregates, query' = WithAggregate(query, a) \/ query' = query,
              ToSql, UNCHANGED <<ran, freed>>, phase' = "crashed" \/ (phase' = phase /\ failed'),
              failed' \in BOOLEAN
       PROVE  IInv'
  <2>1. /\ query' \in Query /\ query'.where = query.where /\ query'.having = query.having
        /\ query'.params = query.params /\ query'.owned = query.owned
    <3>1. <<a>> \in Seq(Columns \cup Aggregates)
      BY <1>12
    <3>2. CASE query' = WithAggregate(query, a)
      BY <1>0, <3>1, <3>2, SelectReplaced DEF WithAggregate
    <3> QED BY <1>0, <1>12, <3>2
  <2>2. AggregatesDoNotStay'
    BY <1>12 DEF AggregatesDoNotStay
  <2> QED BY <1>0, <1>12, <2>1, <2>2, OtherStepKeepsInv DEF ToSql, Building
<1>13. CASE AggregateFails
  BY <1>12, <1>13 DEF AggregateFails
<1>14. CASE NoRow
  <2>1. PICK a \in Aggregates : query' = WithAggregate(query, a) \/ query' = query
    BY <1>14 DEF NoRow, Aggregates
  <2> QED BY <1>0, <1>12, <1>14, <2>1 DEF NoRow
<1>15. CASE EndRequest
  <2>1. AggregatesDoNotStay'
    BY <1>15 DEF EndRequest, AggregatesDoNotStay
  <2> QED BY <1>0, <1>15, <2>1, OtherStepKeepsInv DEF EndRequest, Building
<1>16. CASE RunHandler
  <2>1. /\ query' \in Query /\ query'.where = query.where /\ query'.having = query.having
        /\ query'.params = query.params /\ query'.owned = FALSE
    BY <1>0, <1>16 DEF RunHandler, ZeroCounts, Query
  <2>2. Conditions(query') = Conditions(query)
    BY <2>1 DEF Conditions
  <2>3. Numbering(Conditions(query'), query'.params)
    BY <2>1, <2>2 DEF IInv
  <2>4. AggregatesDoNotStay'
    BY <1>16 DEF RunHandler, AggregatesDoNotStay
  <2>5. TypeOK' /\ Freeing' /\ (Len(query.where) <= MaxWhere + handlers)'
    <3>1. /\ ran \in Nat /\ ran < handlers /\ freed \in Nat /\ query.owned \in BOOLEAN
          /\ query.owned <=> ran = 0
          /\ freed = IF ran = 0 THEN 0 ELSE Len(query.where) + Len(query.having)
          /\ handlers \in 0..MaxStatements
          /\ Len(query.where) <= MaxWhere + handlers
          /\ Len(query.where) <= MaxWhere + MaxStatements /\ Len(query.having) <= MaxHaving
      BY <1>0, <1>16 DEF RunHandler, IInv, TypeOK, Freeing, Query
    <3>2. /\ ran' = ran + 1 /\ handlers' = handlers /\ failed' = failed
          /\ phase' = IF ran' = handlers THEN "done" ELSE "freeing"
          /\ freed' = freed + IF query.owned THEN Len(query.where) + Len(query.having) ELSE 0
      BY <1>16 DEF RunHandler
    <3>3. /\ Len(query.where) \in Nat /\ Len(query.having) \in Nat
      BY <1>0
    <3> DEFINE all == Len(query.where) + Len(query.having)
    <3>3a. all \in Nat
      <4> DEFINE w == Len(query.where)
                 h == Len(query.having)
      <4>1. w \in Nat /\ h \in Nat
        BY <3>3
      <4> HIDE DEF w, h
      <4>2. w + h \in Nat
        BY <4>1
      <4> QED BY <4>2 DEF w, h
    <3>4. all \in Nat /\ freed' = all
      <4>1. CASE ran = 0
        <5>1. query.owned /\ freed = 0
          BY <3>1, <4>1
        <5>2. (IF query.owned THEN all ELSE 0) = all
          BY <5>1, Zenon
        <5>3. freed' = freed + all
          BY <3>2, <5>2, Zenon
        <5> HIDE DEF all
        <5> QED BY <3>3a, <5>1, <5>3
      <4>2. CASE ran # 0
        <5>1. ~query.owned /\ freed = all
          BY <3>1, <4>2
        <5>2. (IF query.owned THEN all ELSE 0) = 0
          BY <5>1, Zenon
        <5>3. freed' = freed + 0
          BY <3>2, <5>2, Zenon
        <5> HIDE DEF all
        <5> QED BY <3>3a, <5>1, <5>3
      <4> QED BY <4>1, <4>2
    <3>5. TypeOK'
      <4>1. query'.where = query.where /\ query'.having = query.having /\ query' \in Query
        BY <2>1
      <4>2. ran' \in 0..handlers' /\ phase' \in {"done", "freeing"}
        BY <3>1, <3>2
      <4>3. failed' \in BOOLEAN /\ freed' \in Nat
        BY <1>0, <3>2, <3>4
      <4> HIDE DEF all
      <4> QED BY <3>1, <3>2, <4>1, <4>2, <4>3 DEF TypeOK
    <3>6. Freeing'
      <4>1. Len(query'.where) + Len(query'.having) = all
        BY <2>1
      <4>2. phase' \in {"done", "freeing"} /\ (phase' = "freeing" => ran' < handlers') /\ ran' # 0
        BY <3>1, <3>2
      <4> HIDE DEF all
      <4> QED BY <2>1, <3>4, <4>1, <4>2 DEF Freeing
    <3> QED BY <2>1, <3>1, <3>2, <3>5, <3>6
  <2> QED BY <2>3, <2>4, <2>5 DEF IInv
<1>17. CASE UNCHANGED vars
  BY <1>17 DEF vars, IInv, TypeOK, Numbering, AggregatesDoNotStay, Freeing
<1> QED BY <1>1, <1>2, <1>3, <1>4, <1>5, <1>6, <1>7, <1>8, <1>10, <1>11, <1>13, <1>14, <1>15,
           <1>16, <1>17 DEF Next, Build, Run

-----------------------------------------------------------------------------
(* Theorems. *)

\* The inductive invariant of the builder.
THEOREM QueryInvariant == Spec => []IInv
BY InitInv, NextInv, PTL DEF Spec

\* Types of the builder, for any bounds.
THEOREM QueryTypeOK == Spec => []TypeOK
<1>1. IInv => TypeOK
  BY DEF IInv
<1> QED BY <1>1, QueryInvariant, PTL

\* A statement the server accepts binds each placeholder to its own value, for
\* any number of conditions and of placeholders in them.
THEOREM QueryBoundToOwnValue == Spec => []BoundToOwnValue
<1>1. IInv => BoundToOwnValue
  <2> SUFFICES ASSUME IInv, Acceptable(query)
               PROVE  \A c \in Conditions(query) : Own(c, query.params)
    BY DEF BoundToOwnValue, Own
  <2>1. Marks(query) = DOMAIN query.params
    BY DEF Acceptable, IInv, TypeOK, Query
  <2>2. ~ \E p \in Nat : Unmentioned(Conditions(query), query.params, p)
    BY <2>1 DEF Unmentioned, Marks, RangeOf
  <2> QED BY <2>2 DEF IInv, Numbering
<1> QED BY <1>1, QueryInvariant, PTL

\* No aggregate is left selected by a count or a stat that went through.
THEOREM QueryAggregatesDoNotStay == Spec => []AggregatesDoNotStay
<1>1. IInv => AggregatesDoNotStay
  BY DEF IInv
<1> QED BY <1>1, QueryInvariant, PTL

\* However many statements were made, each condition is freed once.
THEOREM QueryConditionsFreedOnce == Spec => []ConditionsFreedOnce
<1>1. IInv => ConditionsFreedOnce
  BY DEF IInv, TypeOK, Query, Freeing, ConditionsFreedOnce
<1> QED BY <1>1, QueryInvariant, PTL

=============================================================================
