--------------------------- MODULE ResourceQuery ---------------------------
(***************************************************************************)
(* A JSON:API request of src/resource: resource->all and resource->find make *)
(* a scope (a query_t of QueryBuilder) of the query string, ask it for stats *)
(* and for rows, and do the same for every resource to include, with a copy  *)
(* of the query string in which the filters are the ids to relate to.        *)
(*                                                                         *)
(* Every filter is a step of its own, and every statement: other requests    *)
(* write in between.  Texts are numbers; LIKE and LOWER are the relation     *)
(* Like.  A stat's value is the rows it ranges over.  Rows come in any       *)
(* order: a page is any part of its size.                                    *)
(***************************************************************************)
EXTENDS Integers, SequencesExt

CONSTANTS Types,      \* resource types; the table of a type has its name
          Relations,  \* [child, parent, key]: belongsTo of child, hasMany of parent
          Attributes, \* Attributes[t]: the attributes of t with their type
          Like,       \* Like[op]: the pairs of a filter's value and a cell it finds
          Stored,     \* what the tables may hold when the request begins
          Written,    \* Written[t]: rows that other requests save or delete
          Requests,   \* requests for a list or for one resource
          IntLimit,   \* the least number that no int holds, 2^31
          MaxWrites,  \* bound: writes of others during the request
          MaxFailures \* bound: statements that fail for a reason of their own

Blank == -2     \* the text of a NULL cell, and any text no cell has: no integer
NullText == -1  \* a NULL pointer for a text
None == "none"

Keys(t)    == {r.key : r \in {x \in Relations : x.child = t}}
ColumnsOf(t) == {"id"} \cup DOMAIN Attributes[t] \cup Keys(t)
KindOf(t, c) == IF c \in DOMAIN Attributes[t] THEN Attributes[t][c] ELSE "integer"

Cell   == Nat \cup {Blank}
Row(t) == {row \in [ColumnsOf(t) -> Cell] : row.id \in Nat \ {0}}

\* An id is of one row.
IsTable(t, rows) ==
    /\ rows \subseteq Row(t) /\ IsFiniteSet(rows)
    /\ \A a, b \in rows : a.id = b.id => a = b

\* Filters are told from a type's by their names, and keys from ids by theirs.
ASSUME TypesAssumption ==
    /\ None \notin Types /\ {MaxWrites, MaxFailures} \subseteq Nat /\ IntLimit \in Nat \ {0}
    /\ \A r \in Relations : {r.child, r.parent} \subseteq Types
    /\ \A t \in Types :
         /\ \A a \in DOMAIN Attributes[t] : Attributes[t][a] \in {"integer", "string", "boolean"}
         /\ DOMAIN Attributes[t] \cap (Keys(t) \cup {"id"}) = {} /\ "id" \notin Keys(t)
         /\ ColumnsOf(t) \cap (Types \cup {None, "count(*)", "stat"}) = {}
         /\ IsFiniteSet(ColumnsOf(t))

ASSUME StoredAssumption ==
    /\ \A db \in Stored : DOMAIN db = Types /\ \A t \in Types : IsTable(t, db[t])
    /\ \A t \in Types : Written[t] \subseteq Row(t)

\* Values of a query string: a page's are what atoi makes of them, 0 of most texts.
IsValues(path, values) ==
    CASE path[1] = "sort" -> \A k \in DOMAIN values : DOMAIN values[k] = {"type", "column", "direction"}
      [] path[1] = "filter" -> values \in Seq(Cell)
      [] path[1] = "page"   -> values \in Seq(-IntLimit..(IntLimit - 1))
      [] OTHER -> values \in Seq(Range(values)) /\ None \notin Range(values)

\* filter[t][t] has no meaning: the object is freed while it is gone through.
IsPath(path) ==
    /\ path \in Seq(Range(path)) /\ path # <<>>
    /\ path[1] = "filter" /\ Len(path) > 2 /\ path[2] \in Types => path[2] # path[3]

ASSUME RequestsAssumption ==
    \A r \in Requests :
        /\ r.kind \in {"all", "find"} /\ r.type \in Types /\ r.id \in Cell
        /\ r.params \in Seq(Range(r.params))
        /\ \A param \in Range(r.params) :
             IsPath(param[1]) /\ IsValues(param[1], param[2])

VARIABLES
    tables,   \* the database
    request,  \* [kind, type, id, params]
    stack,    \* calls of all or find under way, the innermost last
    scope,    \* the query_t of the innermost call
    pc,       \* what that call does next, or "done", "crashed"
    colls,    \* the collections made, by the places of their names in the includes
    stats,    \* stats made, in the order they come to stand in statsArray
    writes, failures

vars == <<tables, request, stack, scope, pc, colls, stats, writes, failures>>

B == INSTANCE QueryBuilder WITH
        Columns <- UNION {ColumnsOf(t) : t \in Types}, Values <- Int,
        Clauses <- {"limit", "offset"}, MaxWhere <- 100, MaxHaving <- 0,
        MaxMarks <- 100, MaxNames <- 100, MaxStatements <- 100,
        query <- scope.query, phase <- pc, handlers <- 0, ran <- 0,
        freed <- 0, failed <- FALSE

-----------------------------------------------------------------------------
(* Relations of the models. *)

RelationsOf(child, parent) == {r \in Relations : r.child = child /\ r.parent = parent}
KeyOf(child, parent) == (CHOOSE r \in RelationsOf(child, parent) : TRUE).key

\* getForeignKey: a relation to many first, then the id for one we belong to.
ForeignKey(t, u) ==
    IF RelationsOf(u, t) # {} THEN KeyOf(u, t)
    ELSE IF RelationsOf(t, u) # {} THEN "id" ELSE None

\* getBelongsToKey
BelongsToKey(t, u) == IF RelationsOf(t, u) # {} THEN KeyOf(t, u) ELSE None

-----------------------------------------------------------------------------
(* The query string as an object: the keys, path by path, with their values, *)
(* in the places in which they are gone through.                            *)

PathOf(leaf) == leaf[1]
Within(path, leaf) == IsPrefix(path, PathOf(leaf))

SameKey(a, b) == PathOf(a) = PathOf(b)
Clash(a, b)   == ~SameKey(a, b) /\ (Within(PathOf(a), b) \/ Within(PathOf(b), a))

\* A key again: its value changes, in its place.  A value above or below goes.
Parsed(params) ==
    LET kept == {k \in DOMAIN params : \A j \in DOMAIN params :
                    j > k => ~SameKey(params[j], params[k]) /\ ~Clash(params[j], params[k])}
        place(k) == Min({j \in 1..k : /\ SameKey(params[j], params[k])
                                      /\ \A i \in j..k : ~Clash(params[i], params[k])})
    IN [p \in {place(k) : k \in kept} |-> params[CHOOSE k \in kept : place(k) = p]]

Under(query, path) == Restrict(query, {k \in DOMAIN query : Within(path, query[k])})
First(query) == query[Min(DOMAIN query)]

LeavesAt(query, path) == {leaf \in Range(query) : PathOf(leaf) = path}
ValuesAt(query, path) ==
    IF LeavesAt(query, path) = {} THEN <<>> ELSE (CHOOSE leaf \in LeavesAt(query, path) : TRUE)[2]

-----------------------------------------------------------------------------
(* Filters. *)

Negations == [not_eq |-> "eq", not_eql |-> "eql", not_match |-> "match",
              not_prefix |-> "prefix", not_suffix |-> "suffix", not_lower |-> "lower"]
Orders == {"gt", "gte", "lt", "lte"}
Equalities == {"eq", "not_eq", "eql", "not_eql"}

\* The operators that addDefaultFiltersToAttribute registers.
NumericFilters(kind)  == IF kind = "integer" THEN Orders ELSE {}
EqualityFilters(kind) == IF kind # "string" THEN {"eq", "not_eq"} ELSE {}
TextFilters(kind)     == IF kind = "string"
                         THEN Equalities \cup {"match", "prefix", "suffix",
                                               "not_match", "not_prefix", "not_suffix"}
                         ELSE {}
FiltersOn(t, c) ==
    IF c \notin ColumnsOf(t) THEN {}
    ELSE LET kind == KindOf(t, c)
         IN NumericFilters(kind) \cup EqualityFilters(kind) \cup TextFilters(kind)

\* A leaf below "filter", or below "filter" and a type, without an operator: eq.
\* An operator with keys below it is no array: it has no values.
FilterOf(leaf, t) ==
    LET at == IF PathOf(leaf)[2] = t THEN 3 ELSE 2
        short == Len(PathOf(leaf)) = at
    IN [column |-> PathOf(leaf)[at], op |-> IF short THEN "eq" ELSE PathOf(leaf)[at + 1],
        values |-> IF Len(PathOf(leaf)) > at + 1 THEN <<>> ELSE leaf[2], short |-> short]

IsTyped(leaf, t) == Within(<<"filter", t>>, leaf) /\ Len(PathOf(leaf)) > 2
IsOwn(leaf) ==
    /\ PathOf(leaf)[1] = "filter" /\ Len(PathOf(leaf)) > 1
    /\ PathOf(leaf)[2] \notin Types

\* Faulty variant: filters for the type are not looked at.
ConcernsOwn(query, t, leaf) == IsOwn(leaf)

\* The filters for the type replace those of the same attribute.
Concerns(query, t, leaf) ==
    \/ IsTyped(leaf, t)
    \/ /\ IsOwn(leaf)
       /\ \A other \in Range(query) : ~Within(<<"filter", t, PathOf(leaf)[2]>>, other)

\* Those with a callback count; without any value eq is not asked.
IsAsked(t, f) == f.op \in FiltersOn(t, f.column) /\ (f.short => f.values # <<>>)

Filters(query, t) ==
    {f \in {FilterOf(leaf, t) : leaf \in {l \in Range(query) : Concerns(query, t, l)}} : IsAsked(t, f)}

\* What the condition says: eq of a single text ignores the case.
TestOf(t, f) ==
    LET lower == KindOf(t, f.column) = "string" /\ Len(f.values) = 1
    IN [column |-> f.column,
        op |-> CASE lower /\ f.op = "eq"     -> "lower"
                 [] lower /\ f.op = "not_eq" -> "not_lower"
                 [] OTHER                    -> f.op,
        values |-> IF f.op \in Equalities THEN f.values
                   ELSE IF f.values = <<>> THEN <<NullText>> ELSE <<f.values[1]>>]

\* strlen of the value that is not there.
CrashesOn(f) == f.values = <<>> /\ f.op \notin Equalities \cup Orders

\* What a key below "stats" names: no array, or an empty one, has no stat.
AskOf(leaf) ==
    LET path == PathOf(leaf)
    IN [attribute |-> IF Len(path) = 2 THEN path[2] ELSE path[3],
        stat |-> IF Len(path) > 3 \/ leaf[2] = <<>> THEN None ELSE leaf[2][1]]

\* The keys below the resource's own type, and the one of them that comes last.
TypedStats(query, t) ==
    {k \in DOMAIN Under(query, <<"stats", t>>) : Len(PathOf(query[k])) > 2 \/ query[k][2] = <<>>}
LastStat(query, t) ==
    Max({k \in TypedStats(query, t) : \A j \in TypedStats(query, t) :
            j < k => AskOf(query[j]).attribute # AskOf(query[k]).attribute})

\* The places of the stats that concern a resource: one is for all of its type.
IsStatOf(query, t, k) ==
    \/ PathOf(query[k])[1] = "stats" /\ Len(PathOf(query[k])) = 2 /\ query[k][2] # <<>>
    \/ k \in TypedStats(query, t) /\ k = Min(TypedStats(query, t))

\* One value is made for all: of the resource's type, if that is among the keys.
Asked(query, t) ==
    [k \in {i \in DOMAIN query : IsStatOf(query, t, i)} |->
        LET ask == AskOf(query[IF k \in TypedStats(query, t) THEN LastStat(query, t) ELSE k])
        IN [type |-> IF TypedStats(query, t) = {} THEN None ELSE t,
            attribute |-> ask.attribute, stat |-> ask.stat]]

NewScope(query, t) ==
    [query |-> B!NewQuery, todo |-> Filters(query, t), tests |-> {}, page |-> <<>>,
     asked |-> Asked(query, t), stat |-> <<>>]

\* The callback of a filter.
WithTest(s, test) ==
    [s EXCEPT !.tests = @ \cup {test},
              !.query = IF Len(test.values) = 1 THEN B!WithWhere(@, test.values)
                        ELSE B!WithWhereIn(@, test.values)]

-----------------------------------------------------------------------------
(* Sorts, pages and fields. *)

\* Sorts without a type or with the resource's own.
Sorts(query, t) ==
    {item \in Range(ValuesAt(query, <<"sort">>)) :
        item.type \in {None, t} /\ item.column \in {"id"} \cup DOMAIN Attributes[t]}

WithSorts(s, query, t) ==
    [s EXCEPT !.query.order =
        @ \o SetToSeq({<<item.column, item.direction>> : item \in Sorts(query, t)})]

\* A product as an int keeps it.
Wrapped(n) == ((n + IntLimit) % (2 * IntLimit)) - IntLimit

\* Limit and offset, if number and size are there.
PageOf(query) ==
    LET number == ValuesAt(query, <<"page", "number">>)
        size   == ValuesAt(query, <<"page", "size">>)
    IN IF <<>> \in {number, size} THEN <<>>
       ELSE <<size[1], Wrapped((number[1] - 1) * size[1])>>

WithPage(s, query) ==
    IF PageOf(query) = <<>> THEN s
    ELSE [s EXCEPT !.page = PageOf(query),
                   !.query = B!WithClause(B!WithClause(@, "limit"), "offset")]

\* Keys below the type are no names, but something is listed.
IsListed(query, t) == \E leaf \in Range(query) : Within(<<"fields", t>>, leaf)

\* Faulty variant: the columns of the relations are not added.
NamesOnly(query, t) ==
    <<"id">> \o (IF ~IsListed(query, t) THEN SetToSeq(DOMAIN Attributes[t])
                 ELSE ValuesAt(query, <<"fields", t>>))

\* Faulty variant: no attributes unless they are named.
NamesListed(query, t) ==
    <<"id">> \o ValuesAt(query, <<"fields", t>>) \o SetToSeq(Keys(t))

\* The loop over the types stops at the first that is another resource's.
Names(query, t) ==
    <<"id">> \o (IF ~IsListed(query, t) THEN SetToSeq(DOMAIN Attributes[t])
                 ELSE IF PathOf(First(Under(query, <<"fields">>))) = <<"fields", t>>
                      THEN ValuesAt(query, <<"fields", t>>) ELSE <<>>)
             \o SetToSeq(Keys(t))

WithFields(s, query, t) ==
    IF DOMAIN Under(query, <<"fields">>) = {} THEN s
    ELSE [s EXCEPT !.query.select = @ \o Names(query, t)]

\* What applyQueryToScope does after the stats.
Finished(s, query, t) == WithFields(WithPage(WithSorts(s, query, t), query), query, t)

-----------------------------------------------------------------------------
(* The database. *)

Compare(op, v, cell) ==
    CASE op = "gt" -> cell > v [] op = "gte" -> cell >= v
      [] op = "lt" -> cell < v [] op = "lte" -> cell <= v
      [] op \in {"eq", "eql"} -> cell = v
      [] OTHER -> <<v, cell>> \in Like[op]

\* A condition with a NULL in it holds of nothing.
Passes(row, test) ==
    LET cell == row[test.column]
        Found(op) == \E v \in Range(test.values) : Compare(op, v, cell)
    IN /\ cell # Blank /\ NullText \notin Range(test.values)
       /\ IF test.op \in DOMAIN Negations THEN ~Found(Negations[test.op]) ELSE Found(test.op)

Matching(rows, tests) == {row \in rows : \A test \in tests : Passes(row, test)}

Aggregated(q) == q.select # <<>> /\ q.select[1] \in B!Aggregates

\* Statements the server does not refuse.
Accepted(s, t) ==
    /\ B!Acceptable(s.query)
    /\ \A test \in s.tests : KindOf(t, test.column) # "string" => Blank \notin Range(test.values)
    /\ IF Aggregated(s.query) THEN Len(s.query.select) = 1 /\ s.query.order = <<>>
       ELSE Range(s.query.select) \subseteq ColumnsOf(t)
    /\ s.page # <<>> => s.page[1] >= 0 /\ s.page[2] >= 0

PageSize(n, page) ==
    IF page = <<>> THEN n ELSE Min({page[1], Max({0, n - page[2]})})

\* An instance made of a row: the first column is its id, the others its cells.
Selected(q, t) == (IF q.select = <<>> THEN ColumnsOf(t) ELSE Range(q.select)) \ {"id"}
InstanceOf(q, t, row) == [id |-> row.id, cells |-> [c \in Selected(q, t) |-> row[c]]]
CountRow(n) == [id |-> n, cells |-> <<>>]

\* The instances that a statement may give: a count that stayed gives one row.
Answers(s, t) ==
    LET rows == Matching(tables[t], s.tests)
        all  == IF Aggregated(s.query) THEN {CountRow(Cardinality(rows))}
                ELSE {InstanceOf(s.query, t, row) : row \in rows}
    IN kSubset(PageSize(Cardinality(all), s.page), all)

-----------------------------------------------------------------------------
(* The calls of all and find. *)

\* The filters for the type are moved to their attributes: the query is changed.
Consumed(query, t) == Restrict(query, {k \in DOMAIN query : ~Within(<<"filter", t>>, query[k])})

Frame(path, t, query) == [path |-> path, type |-> t, query |-> Consumed(query, t), next |-> 1]
Top  == Last(stack)
Rows == colls[Top.path].rows
Finds(path) == request.kind = "find" /\ path = <<>>
Includes(frame) == ValuesAt(frame.query, <<"include">>)

Init ==
    /\ tables \in Stored /\ request \in Requests
    /\ stack = <<Frame(<<>>, request.type, Parsed(request.params))>>
    /\ scope = NewScope(Parsed(request.params), request.type) /\ pc = "filters"
    /\ colls = <<>> /\ stats = <<>> /\ writes = 0 /\ failures = 0

ApplyFilter ==
    /\ pc = "filters"
    /\ \E f \in scope.todo :
         IF CrashesOn(f) THEN pc' = "crashed" /\ UNCHANGED scope
         ELSE /\ scope' = WithTest([scope EXCEPT !.todo = @ \ {f}], TestOf(Top.type, f))
              /\ UNCHANGED pc
    /\ UNCHANGED <<tables, request, stack, colls, stats, writes, failures>>

FiltersApplied ==
    /\ pc = "filters" /\ scope.todo = {}
    /\ pc' = IF DOMAIN scope.asked = {} THEN "rows" ELSE "stats"
    /\ UNCHANGED <<tables, request, stack, scope, colls, stats, writes, failures>>

-----------------------------------------------------------------------------
(* Stats. *)

Asking == pc = "stats" /\ DOMAIN scope.asked # {}
Ask    == First(scope.asked)
OthersAsked == Restrict(scope.asked, DOMAIN scope.asked \ {Min(DOMAIN scope.asked)})
Counts == Ask.attribute = "total" /\ Ask.stat = "count"
Measures == Ask.attribute \in DOMAIN Attributes[Top.type]
Summaries == {"min", "max", "average", "sum"}
Counting == [scope EXCEPT !.query = B!WithAggregate(@, "count(*)")]
Measuring == [scope EXCEPT !.query = IF Ask.stat \in Summaries THEN B!WithAggregate(@, "stat") ELSE @]

\* sum and average of a text are refused.
Measurable ==
    Ask.stat \in {"sum", "average"} => KindOf(Top.type, Ask.attribute) = "integer"

\* The value of the stat: the ids it was made of, and (history) of which rows.
Valued(over, ok, query) ==
    scope' = [scope EXCEPT !.asked = OthersAsked, !.query = query,
              !.stat = <<[path |-> Top.path, type |-> Ask.type, attribute |-> Ask.attribute,
                          stat |-> Ask.stat, over |-> over, ok |-> ok,
                          of |-> Top.type, seen |-> tables[Top.type]]>>]

\* Faulty variant: stats before filters.
FoundUnfiltered == {row.id : row \in tables[Top.type]}

Found == {row.id : row \in Matching(tables[Top.type], scope.tests)}

Count ==
    /\ Asking /\ Counts /\ Accepted(Counting, Top.type)
    /\ Valued(Found, TRUE, B!Reset(Counting.query))
    /\ UNCHANGED <<tables, request, stack, pc, colls, stats, writes, failures>>

\* A statement the server refuses, or one that fails for a reason of its own.
Fails(accepted) ==
    \/ ~accepted /\ UNCHANGED failures
    \/ failures < MaxFailures /\ failures' = failures + 1

\* -1 is the count, and count(*) stays selected.
CountFails ==
    /\ Asking /\ Counts /\ Fails(Accepted(Counting, Top.type))
    /\ Valued({}, FALSE, Counting.query)
    /\ UNCHANGED <<tables, request, stack, pc, colls, stats, writes>>

\* A stat that stat does not know is the first column of the first row.
Measure ==
    /\ Asking /\ ~Counts /\ Measures /\ Ask.stat # None
    /\ Measurable /\ Accepted(Measuring, Top.type)
    /\ IF Ask.stat \in Summaries THEN Valued(Found, TRUE, B!Reset(Measuring.query))
       ELSE \E id \in Found : Valued({id}, TRUE, B!Reset(Measuring.query))
    /\ UNCHANGED <<tables, request, stack, pc, colls, stats, writes, failures>>

\* strcmp of the stat that is not there, strlen of the value of a refused one, strdup
\* of that of no row.
MeasureCrashes ==
    /\ Asking /\ ~Counts /\ Measures
    /\ \/ Ask.stat = None /\ UNCHANGED failures
       \/ Ask.stat # None /\ Fails(Measurable /\ Accepted(Measuring, Top.type))
       \/ Ask.stat \notin Summaries /\ Found = {} /\ UNCHANGED failures
    /\ pc' = "crashed"
    /\ UNCHANGED <<tables, request, stack, scope, colls, stats, writes>>

NoStat ==
    /\ Asking /\ ~Counts /\ ~Measures
    /\ scope' = [scope EXCEPT !.asked = OthersAsked]
    /\ UNCHANGED <<tables, request, stack, pc, colls, stats, writes, failures>>

\* One value for all that was asked: the last.
StatsMade ==
    /\ pc = "stats" /\ DOMAIN scope.asked = {}
    /\ stats' = stats \o scope.stat /\ pc' = "rows"
    /\ UNCHANGED <<tables, request, stack, scope, colls, writes, failures>>

-----------------------------------------------------------------------------
(* Rows. *)

\* find asks for the id as well.
Asks(path, s) ==
    IF Finds(path) THEN WithTest(s, [column |-> "id", op |-> "eq", values |-> <<request.id>>])
    ELSE s

Statement == Asks(Top.path, Finished(scope, Top.query, Top.type))

\* The instance that find makes has the id that was asked for.
Instances(rows) == IF Finds(Top.path) THEN {[r EXCEPT !.id = request.id] : r \in rows} ELSE rows

Made(rows, ok) ==
    /\ colls' = [path \in DOMAIN colls \cup {Top.path} |->
                   IF path = Top.path THEN [type |-> Top.type, rows |-> Instances(rows), ok |-> ok,
                                            seen |-> tables[Top.type]]
                   ELSE colls[path]]
    /\ pc' = IF Finds(Top.path) /\ rows = {} THEN "done" ELSE "include"
    /\ UNCHANGED <<tables, request, stack, scope, stats, writes>>

RunRows ==
    /\ pc = "rows" /\ Accepted(Statement, Top.type)
    /\ \E rows \in Answers(Statement, Top.type) : Made(rows, TRUE)
    /\ UNCHANGED failures

\* No rows, or nothing found.
RowsFail ==
    /\ pc = "rows" /\ Fails(Accepted(Statement, Top.type))
    /\ Made({}, FALSE)

-----------------------------------------------------------------------------
(* Includes. *)

Get(instance, attribute) ==
    IF attribute = "id" THEN instance.id
    ELSE IF attribute \in DOMAIN instance.cells THEN instance.cells[attribute] ELSE NullText

\* Faulty variant: the rows we belong to are looked for under our own ids.
OwnIds(path, t, u, rows) == {b.id : b \in rows}

\* The ids to relate to; find takes its own even for what it belongs to.
RelatedIds(path, t, u, rows) ==
    IF ForeignKey(t, u) = "id" /\ ~Finds(path)
    THEN {Get(b, BelongsToKey(t, u)) : b \in rows} \ {NullText}
    ELSE {b.id : b \in rows}

\* A copy of the query keeps filters for types, and stats, pages and fields whole.
Carried(leaf, rest) ==
    CASE PathOf(leaf)[1] = "include" -> PathOf(leaf) = <<"include">> /\ rest # <<>>
      [] PathOf(leaf)[1] = "filter"  -> Len(PathOf(leaf)) = 1 \/ PathOf(leaf)[2] \in Types
      [] OTHER -> TRUE

\* Faulty variant: sorts of the base stay.
CopiedWithSorts(leaf, rest) ==
    IF PathOf(leaf) = <<"include">> THEN <<PathOf(leaf), <<rest>>>> ELSE leaf

\* Of the sorts, those with a type; of an include, what follows its first name.
Copied(leaf, rest) ==
    CASE PathOf(leaf) = <<"include">> -> <<PathOf(leaf), <<rest>>>>
      [] PathOf(leaf) = <<"sort">> ->
           <<PathOf(leaf), Restrict(leaf[2], {k \in DOMAIN leaf[2] : leaf[2][k].type # None})>>
      [] OTHER -> leaf

\* buildIncludedParams; a filter that is no object takes no ids.
RelatedPlace == 0
IncludedQuery(query, fk, rest, ids) ==
    LET kept  == {k \in DOMAIN query : Carried(query[k], rest)}
        taken == LeavesAt(query, <<"filter">>) # {}
    IN [k \in kept \cup (IF taken THEN {} ELSE {RelatedPlace}) |->
            IF k \in kept THEN Copied(query[k], rest) ELSE <<<<"filter", fk>>, SetToSeq(ids)>>]

Including == pc = "include" /\ Top.next <= Len(Includes(Top))
Name == Head(Includes(Top)[Top.next])
Known == Name \in Types /\ ForeignKey(Top.type, Name) # None
Passed == [stack EXCEPT ![Len(stack)].next = @ + 1]

Include ==
    /\ Including /\ Known
    /\ LET ids   == RelatedIds(Top.path, Top.type, Name, Rows)
           query == IncludedQuery(Top.query, ForeignKey(Top.type, Name),
                                  Tail(Includes(Top)[Top.next]), ids)
       IN /\ stack' = Append(Passed, Frame(Append(Top.path, Top.next), Name, query))
          /\ scope' = NewScope(query, Name)
    /\ pc' = "filters"
    /\ UNCHANGED <<tables, request, colls, stats, writes, failures>>

SkipInclude ==
    /\ Including /\ ~Known
    /\ stack' = Passed
    /\ UNCHANGED <<tables, request, scope, pc, colls, stats, writes, failures>>

\* The key that addRelatedToResource is called with.
RelatingKey(path) ==
    LET t == colls[Front(path)].type
        u == colls[path].type
    IN IF ForeignKey(t, u) = "id" /\ ~Finds(Front(path)) THEN BelongsToKey(t, u)
       ELSE ForeignKey(t, u)

\* Whether r of the collection at a path is put to b, of the one it is included for.
IsRelated(path, b, r) ==
    LET key == BelongsToKey(colls[Front(path)].type, colls[path].type) IN
    IF Get(r, RelatingKey(path)) # NullText THEN Get(r, RelatingKey(path)) = b.id
    ELSE Get(b, key) # NullText /\ r.id = Get(b, key)

\* A row without the key, of a count that stayed, and no other key: strcmp of NULL.
RelatingCrashes(path) ==
    /\ colls[Front(path)].rows # {} /\ \E r \in colls[path].rows : Get(r, RelatingKey(path)) = NullText
    /\ BelongsToKey(colls[Front(path)].type, colls[path].type) = None

\* Faulty variant: the outermost call goes on as well.
ReturnToNobody ==
    /\ pc = "include" /\ ~Including
    /\ stack' = Front(stack)
    /\ UNCHANGED <<tables, request, scope, pc, colls, stats, writes, failures>>

Return ==
    /\ pc = "include" /\ ~Including
    /\ stack' = Front(stack)
    /\ pc' = IF Top.path = <<>> THEN "done"
             ELSE IF RelatingCrashes(Top.path) THEN "crashed" ELSE "include"
    /\ UNCHANGED <<tables, request, scope, colls, stats, writes, failures>>

-----------------------------------------------------------------------------
\* Another request saves or deletes a row; it counts before a statement.
Write ==
    /\ writes < MaxWrites /\ pc \in {"stats", "rows"}
    /\ \E t \in Types : \E row \in Written[t] :
         LET others == {r \in tables[t] : r.id # row.id}
         IN \E rows \in {others, others \cup {row}} :
              rows # tables[t] /\ tables' = [tables EXCEPT ![t] = rows]
    /\ writes' = writes + 1
    /\ UNCHANGED <<request, stack, scope, pc, colls, stats, failures>>

Next ==
    \/ ApplyFilter \/ FiltersApplied \/ Count \/ CountFails \/ Measure \/ MeasureCrashes \/ NoStat \/ StatsMade
    \/ RunRows \/ RowsFail \/ Include \/ SkipInclude \/ Return \/ Write

Spec == Init /\ [][Next]_vars

-----------------------------------------------------------------------------
(* The answer. *)

Params == Parsed(request.params)

\* The attributes shown of an instance: those it has a cell for, if listed.
Shown(path, instance) ==
    LET t == colls[path].type IN
    {a \in DOMAIN Attributes[t] \cap DOMAIN instance.cells :
        IsListed(Params, t) => a \in Range(ValuesAt(Params, <<"fields", t>>))}

\* The instances of an include that an instance's relationships name.
PutTo(path, b) == {r \in colls[path].rows : IsRelated(path, b, r)}

\* The instances that stand in "included": for one resource, first those put to it,
\* then whatever was included for any row of theirs.
Included(path) ==
    IF Finds(Front(path))
    THEN UNION {PutTo(path, b) : b \in colls[<<>>].rows}
    ELSE colls[path].rows

\* What meta says of an attribute, of a type or of none: the last stat of that name.
Reported(type, attribute) ==
    stats[Max({k \in DOMAIN stats : stats[k].type = type /\ stats[k].attribute = attribute})]

-----------------------------------------------------------------------------
(* Properties. *)

IsInstance(t, r) ==
    /\ r.id \in Cell /\ DOMAIN r.cells \subseteq ColumnsOf(t)
    /\ \A c \in DOMAIN r.cells : r.cells[c] \in Cell
IsCollection(c) ==
    /\ c.type \in Types /\ c.ok \in BOOLEAN /\ c.seen \subseteq Row(c.type)
    /\ \A r \in c.rows : IsInstance(c.type, r)
IsStatValue(e) ==
    /\ e.type \in {None, e.of} /\ e.ok \in BOOLEAN
    /\ e.over \subseteq {row.id : row \in e.seen}

TypeOK ==
    /\ DOMAIN tables = Types /\ \A t \in Types : IsTable(t, tables[t])
    /\ pc \in {"filters", "stats", "rows", "include", "done", "crashed"}
    /\ pc \in {"filters", "stats", "rows", "include"} => stack # <<>>
    /\ \A k \in DOMAIN stack : stack[k].type \in Types /\ Len(stack[k].path) = k - 1
    /\ scope.query \in B!Query
    /\ \A path \in DOMAIN colls : IsCollection(colls[path])
    /\ \A k \in DOMAIN stats : IsStatValue(stats[k])
    /\ writes \in 0..MaxWrites /\ failures \in 0..MaxFailures

Above(path) == {colls[SubSeq(path, 1, k)].type : k \in 0..(Len(path) - 1)}

\* The client's filters for the rows of type t at a place, read off the request:
\* typed ones, where none of that type is above, and for the base its own.
FiltersAt(path, t) ==
    {FilterOf(leaf, t) : leaf \in {l \in Range(Params) :
        \/ IsTyped(l, t) /\ t \notin Above(path)
        \/ /\ path = <<>> /\ IsOwn(l)
           /\ ~\E m \in Range(Params) : IsTyped(m, t) /\ PathOf(m)[3] = PathOf(l)[2]}}

Wanted(path, t, row) ==
    \A f \in FiltersAt(path, t) : IsAsked(t, f) => Passes(row, TestOf(t, f))

CountStays(path) == \E k \in DOMAIN stats : stats[k].path = path /\ ~stats[k].ok
IsPaged == PageOf(Params) # <<>>
FindsParent(path, u) == Finds(Front(path)) /\ RelationsOf(u, request.type) = {}

\* The relation of the models, of an instance b of type t and a row of type u.
Linked(t, u, b, row) ==
    IF RelationsOf(u, t) # {} THEN row[KeyOf(u, t)] = b.id ELSE Get(b, KeyOf(t, u)) = row.id

\* What a row of type t belongs to has a column of the name of the key: its cell
\* there is compared with the instance's id.
Misread(t, u) == RelationsOf(u, t) = {} /\ BelongsToKey(t, u) \in ColumnsOf(u)

\* No ids reach the statement of an include: there are none, the client's filter
\* for the type is on the same column, or filter is no object.
Unrestricted(path, u) ==
    LET base == colls[Front(path)] IN
    \/ base.rows = {}
    \/ CountStays(Front(path)) /\ ForeignKey(base.type, u) = "id"
    \/ u \notin Above(path) /\ DOMAIN Under(Params, <<"filter", u, ForeignKey(base.type, u)>>) # {}
    \/ \E leaf \in Range(Params) : PathOf(leaf) = <<"filter">>

\* JSON:API's full linkage: what stands in "included" is related to something of
\* the collection it was included for.  Where no ids restrict it, or the key is
\* read off the wrong row, it may not be.
FullLinkage ==
    \A path \in DOMAIN colls \ {<<>>} :
        \/ Unrestricted(path, colls[path].type) \/ CountStays(path)
        \/ Misread(colls[Front(path)].type, colls[path].type)
        \/ Included(path) \subseteq UNION {PutTo(path, b) : b \in colls[Front(path)].rows}

\* The rows put to an instance are those the models' relation links it to and the
\* client's filters for their type let through, as of the include's statement,
\* whatever others wrote since the base was read: unless that statement is refused
\* or gets the page of the base, or one resource includes what it belongs to.
IncludesAreTheLinked ==
    \A path \in DOMAIN colls \ {<<>>} :
        LET t == colls[Front(path)].type
            u == colls[path].type
        IN \/ ~colls[path].ok \/ IsPaged \/ FindsParent(path, u) \/ Misread(t, u)
           \/ CountStays(path)
           \/ \A b \in colls[Front(path)].rows, row \in colls[path].seen :
                (\E r \in PutTo(path, b) : r.id = row.id)
                  <=> Linked(t, u, b, row) /\ Wanted(path, u, row)

\* The rows of the answer pass the filters that the client gave for their type, and
\* those of the base its own, whatever the includes carry on: but for an include of a
\* type that a call above it has, which took the filters for that type.
FiltersReachTheirType ==
    \A path \in DOMAIN colls : \A r \in colls[path].rows, row \in colls[path].seen :
        r.id = row.id /\ ~CountStays(path) => Wanted(path, colls[path].type, row)

Summarises(e) == e.stat \in Summaries \/ (e.attribute = "total" /\ e.stat = "count")

\* A stat ranges over the rows that filters and relations select, all pages of
\* them; the rows that come with it are a page of those unless others wrote in
\* between; and meta's total is the list's own, unless the includes make one of
\* the same name.
StatsRangeOverFiltered ==
    /\ \A k \in DOMAIN stats :
         LET e == stats[k] IN
         e.ok /\ Summarises(e) /\ ~(e.path # <<>> /\ FindsParent(e.path, e.of)) =>
           /\ e.over = {row.id : row \in {x \in e.seen :
                  /\ Wanted(e.path, e.of, x)
                  /\ \/ e.path = <<>> \/ Unrestricted(e.path, e.of)
                     \/ \E b \in colls[Front(e.path)].rows :
                          Linked(colls[Front(e.path)].type, e.of, b, x)}}
           /\ e.path \in DOMAIN colls /\ ~Finds(e.path) =>
                \/ ~colls[e.path].ok \/ colls[e.path].seen # e.seen
                \/ Cardinality(colls[e.path].rows) =
                     PageSize(Cardinality(e.over), PageOf(Params))
    /\ \A k \in DOMAIN stats :
         /\ pc = "done" /\ stats[k].path = <<>>
         /\ \A path \in DOMAIN colls \ {<<>>} : stats[k].type \notin {None, colls[path].type}
         => Reported(stats[k].type, stats[k].attribute).path = <<>>

\* Of every resource the attributes are shown that the client listed for its type,
\* or all if it listed none; a type listed behind another one shows nothing.
FieldsAsAsked ==
    \A path \in DOMAIN colls : \A r \in colls[path].rows :
        LET t == colls[path].type
            own == <<"fields", t>>
        IN \/ CountStays(path)
           \/ Shown(path, r) = DOMAIN Attributes[t]
                \cap (IF ~IsListed(Params, t) THEN DOMAIN Attributes[t]
                      ELSE IF PathOf(First(Under(Params, <<"fields">>))) = own
                           THEN Range(ValuesAt(Params, own)) ELSE {})

\* Reasons why the server refuses a statement for the rows of type t at a place.
MayBeRefused(path, t) ==
    \/ failures > 0
    \/ Finds(path) /\ request.id = Blank
    \/ \E f \in FiltersAt(path, t) : IsAsked(t, f) /\
          \/ KindOf(t, f.column) # "string" /\ Blank \in Range(f.values)
          \/ f.op \in Equalities /\ f.values = <<>>
    \/ IsPaged /\ \E item \in Range(ValuesAt(Params, <<"sort">>)) :
          item.type = t \/ (item.type = None /\ path = <<>>)
    \/ \E n \in Range(PageOf(Params)) : n < 0
    \/ \E name \in Range(ValuesAt(Params, <<"fields", t>>)) : name \notin ColumnsOf(t)
    \/ path # <<>> /\ \E b \in colls[Front(path)].rows :
          LET base == colls[Front(path)].type
          IN RelationsOf(t, base) = {} /\ Get(b, KeyOf(base, t)) = Blank

\* Reasons why a stat that was asked of the rows of a type crashes the server: the
\* query string has none, or one the attribute has not, or no row has a first column.
StatCrashes(ask, t) ==
    /\ ask.attribute \in DOMAIN Attributes[t]
    /\ \/ ask.stat = None
       \/ ask.stat \in {"sum", "average"} /\ KindOf(t, ask.attribute) # "integer"
       \/ ask.stat \notin Summaries /\ Found = {}

\* No statement is refused, and so answered as if there was nothing, but for: what
\* the client wrote (a text for a number, an eq of nothing, a column there is not, a
\* page before the first), a sort together with a page, or a row among those included
\* for that belongs to nobody.  The server crashes only of a filter without a value, of
\* a stat without meaning, or of a refused statement.
RefusedForAReason ==
    /\ \A path \in DOMAIN colls : colls[path].ok \/ MayBeRefused(path, colls[path].type)
    /\ pc = "crashed" =>
         \/ failures > 0 \/ MayBeRefused(Top.path, Top.type)
         \/ \E f \in FiltersAt(Top.path, Top.type) : IsAsked(Top.type, f) /\ CrashesOn(f)
         \/ DOMAIN scope.asked # {} /\ StatCrashes(Ask, Top.type)

=============================================================================
