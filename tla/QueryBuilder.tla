---------------------------- MODULE QueryBuilder ----------------------------
(***************************************************************************)
(* The SQL query builder of src/middleware/postgres-middleware.c, a query_t *)
(* in the hands of one request: calls in any order add clauses and collect  *)
(* parameters; all, find, count and stat make a statement of what is there  *)
(* and run it, and the builder may be used again afterwards.  The file has  *)
(* the builder twice, in the same words: for the database pool of the       *)
(* models (48-433) and for a connection of the middleware (435-820).        *)
(*                                                                         *)
(* A condition is what binding needs of its text: the numbers its           *)
(* placeholders got, and (history) the values the caller gave with it.      *)
(***************************************************************************)
EXTENDS Naturals, Sequences

CONSTANTS Columns,      \* what select and order may name
          Values,       \* parameter values
          Clauses,      \* clauses with a single condition that are called
          MaxWhere, MaxHaving,  \* bounds: conditions (100 each in the code)
          MaxMarks,     \* bound: placeholders of a condition
          MaxNames,     \* bound: names selected, and columns to order by
          MaxStatements \* bound: calls of toSql, by all, find, count or stat

ASSUME QueryAssumption ==
    /\ {MaxWhere, MaxHaving, MaxMarks, MaxNames, MaxStatements} \subseteq Nat
    /\ Columns \cap {"count(*)", "stat"} = {}
    /\ Clauses \subseteq {"limit", "offset", "group", "joins", "distinct"}

VARIABLES
    query,     \* the query_t
    phase,     \* "building", "freeing" in mmFree, "done"; or "crashed"
    handlers,  \* cleanup handlers that toSql registered
    ran,       \* how many of them have run
    freed,     \* conditions freed, counting each free()
    failed     \* history: the statement of a count or a stat failed

vars == <<query, phase, handlers, ran, freed, failed>>

Directions == {"ASC", "DESC"}
Aggregates == {"count(*)", "stat"}
Upto(n, S) == UNION {[1..k -> S] : k \in 0..n}

Condition == [marks : Seq(Nat \ {0}), given : Seq(Values), empty : BOOLEAN]
Query == [params  : Seq(Values),             \* paramValues
          select  : Seq(Columns \cup Aggregates),
          where   : Seq(Condition), having : Seq(Condition),
          order   : Seq(Columns \X Directions),
          clauses : SUBSET Clauses,          \* those with a single condition
          owned   : BOOLEAN]                 \* the counts of conditions are not zeroed

TypeOK ==
    /\ query \in Query
    /\ Len(query.where) <= MaxWhere + MaxStatements /\ Len(query.having) <= MaxHaving
    /\ phase \in {"building", "freeing", "done", "crashed"}
    /\ handlers \in 0..MaxStatements /\ ran \in 0..handlers
    /\ freed \in Nat /\ failed \in BOOLEAN

NewQuery ==
    [params |-> <<>>, select |-> <<>>, where |-> <<>>, having |-> <<>>,
     order |-> <<>>, clauses |-> {}, owned |-> TRUE]

Init ==
    /\ query = NewQuery /\ phase = "building"
    /\ handlers = 0 /\ ran = 0 /\ freed = 0 /\ failed = FALSE

-----------------------------------------------------------------------------
(* What the calls do to a query. *)

\* where and having: every $ of the text gets the number of the next parameter,
\* the first one's, whatever their number.
Bound(q, given) ==
    [marks |-> [k \in DOMAIN given |-> Len(q.params) + 1], given |-> given, empty |-> FALSE]

WithWhere(q, given) ==
    [q EXCEPT !.where = Append(@, Bound(q, given)), !.params = @ \o given]

WithHaving(q, given) ==
    [q EXCEPT !.having = Append(@, Bound(q, given)), !.params = @ \o given]

\* whereIn numbers its placeholders one by one.
WithWhereIn(q, given) ==
    [q EXCEPT !.where = Append(@, [marks |-> [k \in DOMAIN given |-> Len(q.params) + k],
                                   given |-> given, empty |-> given = <<>>]),
              !.params = @ \o given]

WithSelect(q, c) == [q EXCEPT !.select = Append(@, c)]

\* An unknown direction is refused with a message.
WithOrder(q, c, direction) ==
    IF direction \in Directions THEN [q EXCEPT !.order = Append(@, <<c, direction>>)] ELSE q

\* limit, offset, group, joins and distinct: the last call counts.
WithClause(q, clause) == [q EXCEPT !.clauses = @ \cup {clause}]

\* count and stat write over the names selected ...
WithAggregate(q, aggregate) == [q EXCEPT !.select = <<aggregate>>]

\* Faulty variant: what count resets is the parameters.
ResetParams(q) == [q EXCEPT !.select = <<>>, !.params = <<>>]

\* Faulty variant: the aggregate stays.
ResetNothing(q) == q

\* ... and leave none when they are done.
Reset(q) == [q EXCEPT !.select = <<>>]

-----------------------------------------------------------------------------
(* The statement that toSql makes of a query, at the server. *)

RangeOf(s)    == {s[k] : k \in DOMAIN s}
Conditions(q) == RangeOf(q.where \o q.having)
Marks(q)      == UNION {RangeOf(c.marks) : c \in Conditions(q)}

\* The server refuses other numbers of parameters than the text mentions, an
\* empty IN list, and ORDER BY behind LIMIT or OFFSET, which is where toSql puts
\* it.  It may refuse any other statement for reasons of its own.
Acceptable(q) ==
    /\ Marks(q) = 1..Len(q.params)
    /\ \A c \in Conditions(q) : ~c.empty
    /\ q.order = <<>> \/ q.clauses \cap {"limit", "offset"} = {}

\* An aggregate gives one row unless something takes it away.
MayLackRow(q) == {"limit", "offset", "group"} \cap q.clauses # {} \/ q.having # <<>>

-----------------------------------------------------------------------------
(* The calls. *)

Building == phase = "building"

Select ==
    /\ Building /\ Len(query.select) < MaxNames
    /\ \E c \in Columns : query' = WithSelect(query, c)
    /\ UNCHANGED <<phase, handlers, ran, freed, failed>>

Where ==
    /\ Building /\ Len(query.where) < MaxWhere
    /\ \E given \in Upto(MaxMarks, Values) : query' = WithWhere(query, given)
    /\ UNCHANGED <<phase, handlers, ran, freed, failed>>

WhereIn ==
    /\ Building /\ Len(query.where) < MaxWhere
    /\ \E given \in Upto(MaxMarks, Values) : query' = WithWhereIn(query, given)
    /\ UNCHANGED <<phase, handlers, ran, freed, failed>>

Having ==
    /\ Building /\ Len(query.having) < MaxHaving
    /\ \E given \in Upto(MaxMarks, Values) : query' = WithHaving(query, given)
    /\ UNCHANGED <<phase, handlers, ran, freed, failed>>

Order ==
    /\ Building /\ Len(query.order) < MaxNames
    /\ \E c \in Columns, direction \in Directions \cup {"UP"} :
         query' = WithOrder(query, c, direction)
    /\ UNCHANGED <<phase, handlers, ran, freed, failed>>

SetClause ==
    /\ Building
    /\ \E clause \in Clauses : query' = WithClause(query, clause)
    /\ UNCHANGED <<phase, handlers, ran, freed, failed>>

\* toSql leaves the query alone and registers a cleanup handler.
ToSql == Building /\ handlers < MaxStatements /\ handlers' = handlers + 1

\* all, or toSql itself: the result, whatever it is, goes to the caller.
All ==
    /\ ToSql
    /\ UNCHANGED <<query, phase, ran, freed, failed>>

\* find adds a condition on the id, which stays.
Find ==
    /\ ToSql
    /\ \E v \in Values : query' = WithWhere(query, <<v>>)
    /\ UNCHANGED <<phase, ran, freed, failed>>

\* count and stat get the row they ask for.
Aggregate ==
    /\ ToSql
    /\ \E a \in Aggregates :
         LET q == WithAggregate(query, a) IN
         /\ Acceptable(q)
         /\ query' = Reset(q)
    /\ UNCHANGED <<phase, ran, freed, failed>>

\* Their statement fails: they return at once, the aggregate still selected.
AggregateFails ==
    /\ ToSql
    /\ \E a \in Aggregates : query' = WithAggregate(query, a)
    /\ failed' = TRUE
    /\ UNCHANGED <<phase, ran, freed>>

\* A stat the builder does not know selects what is selected, and resets it.
UnknownStat ==
    /\ ToSql /\ Acceptable(query)
    /\ query' = Reset(query)
    /\ UNCHANGED <<phase, ran, freed, failed>>

\* There is no row: atoi or strdup of the NULL that PQgetvalue returns.
NoRow ==
    /\ ToSql /\ Acceptable(query)
    /\ \/ \E a \in Aggregates : /\ MayLackRow(query)
                                /\ query' = WithAggregate(query, a)
       \/ UNCHANGED query      \* an unknown stat
    /\ phase' = "crashed"
    /\ UNCHANGED <<ran, freed, failed>>

-----------------------------------------------------------------------------
(* mmFree of the arena the query lives in. *)

EndRequest ==
    /\ Building
    /\ phase' = IF handlers = 0 THEN "done" ELSE "freeing"
    /\ UNCHANGED <<query, handlers, ran, freed, failed>>

\* Faulty variant: the handler leaves the counts.
Zeroed(q) == q

\* The handler zeroes the counts, for the other handlers of the same query.
ZeroCounts(q) == [q EXCEPT !.owned = FALSE]

\* A handler of toSql frees the conditions that the counts say are there.
RunHandler ==
    /\ phase = "freeing"
    /\ freed' = freed + IF query.owned THEN Len(query.where) + Len(query.having) ELSE 0
    /\ query' = ZeroCounts(query)
    /\ ran' = ran + 1
    /\ phase' = IF ran' = handlers THEN "done" ELSE "freeing"
    /\ UNCHANGED <<handlers, failed>>

-----------------------------------------------------------------------------
Build == Select \/ Where \/ WhereIn \/ Having \/ Order \/ SetClause
Run   == All \/ Find \/ Aggregate \/ AggregateFails \/ UnknownStat \/ NoRow

Next == Build \/ Run \/ EndRequest \/ RunHandler

Spec == Init /\ [][Next]_vars

-----------------------------------------------------------------------------
(* Properties. *)

\* A statement the server accepts means what the caller wrote: each placeholder
\* stands for the value given with it, although a condition of two placeholders
\* gets one number for both, parameters of where, whereIn, having and find are
\* numbered together, and a count or a stat came in between.
BoundToOwnValue ==
    Acceptable(query) =>
        \A c \in Conditions(query) : \A k \in DOMAIN c.marks :
            query.params[c.marks[k]] = c.given[k]

\* The builder may be used again: after a count or a stat whose statement went
\* through, no later statement selects its aggregate instead of rows.
AggregatesDoNotStay ==
    phase = "building" /\ ~failed => RangeOf(query.select) \cap Aggregates = {}

\* Each condition is freed once when the arena goes, however many statements
\* were made of the query: all of them, if there was a statement at all.
ConditionsFreedOnce ==
    LET conditions == Len(query.where) + Len(query.having) IN
    /\ freed <= conditions
    /\ phase = "done" /\ ran > 0 => freed = conditions

=============================================================================
