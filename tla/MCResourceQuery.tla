-------------------------- MODULE MCResourceQuery --------------------------
(***************************************************************************)
(* The tables of test/resource: teams have employees, who have notes.        *)
(***************************************************************************)
EXTENDS ResourceQuery

MCTypes == {"teams", "employees", "notes"}
MCRelations == {[child |-> "employees", parent |-> "teams", key |-> "team_id"],
                [child |-> "notes", parent |-> "employees", key |-> "employee_id"]}
MCAttributes == [teams |-> [name |-> "string"], employees |-> [name |-> "string"],
                 notes |-> [title |-> "string", size |-> "integer"]]

\* Texts: 1 and 3 differ in case only; 2 is part of none.
MCLike == [lower |-> {<<1, 1>>, <<2, 2>>, <<3, 3>>, <<1, 3>>, <<3, 1>>},
           match |-> {<<1, 1>>, <<2, 2>>, <<3, 3>>, <<2, 1>>},
           prefix |-> {<<1, 1>>, <<2, 2>>, <<3, 3>>, <<2, 1>>},
           suffix |-> {<<1, 1>>, <<2, 2>>, <<3, 3>>}]

Team(i, n)        == [id |-> i, name |-> n]
Employee(i, t, n) == [id |-> i, team_id |-> t, name |-> n]
Note(i, e, n, s)  == [id |-> i, employee_id |-> e, title |-> n, size |-> s]

\* Ids of employees are not those of their teams; one team and one employee have
\* nobody; in the second database somebody has no team.
MCStored ==
    {[teams |-> {Team(1, 1), Team(2, 2)},
      employees |-> {Employee(1, 2, 1), Employee(2, 1, 3), Employee(3, 2, 2)},
      notes |-> {Note(1, 2, 1, 1), Note(2, 3, 2, 2), Note(3, 3, 1, 1)}],
     [teams |-> {Team(1, 1)},
      employees |-> {Employee(1, 1, 1), Employee(2, Blank, 2)},
      notes |-> {Note(1, Blank, 1, 1)}]}

MCWritten == [teams |-> {Team(2, 1)}, employees |-> {Employee(2, 2, 1)}, notes |-> {Note(1, 3, 2, 1)}]

P(path, values) == <<path, values>>
By(direction, type, column) == [direction |-> direction, type |-> type, column |-> column]

\* What may be asked of a list, besides includes.
Filtering ==
    {<<>>, <<P(<<"filter", "id", "gt">>, <<1>>)>>, <<P(<<"filter", "name">>, <<1>>)>>,
     <<P(<<"filter", "name", "not_eq">>, <<1>>)>>, <<P(<<"filter", "name", "eql">>, <<1, 2>>)>>,
     <<P(<<"filter", "name", "match">>, <<2>>)>>, <<P(<<"filter", "name", "match">>, <<>>)>>,
     <<P(<<"filter", "name", "eq">>, <<>>)>>,     <<P(<<"filter", "id">>, <<Blank>>)>>,
     <<P(<<"filter">>, <<1>>)>>, <<P(<<"filter", "name", "match", "gorp">>, <<2>>)>>,
     <<P(<<"filter", "employees", "id", "gt", "gorp">>, <<1>>)>>,
     <<P(<<"filter", "employees", "name">>, <<1>>)>>,
     <<P(<<"filter", "teams", "name">>, <<2>>), P(<<"filter", "name">>, <<1>>)>>,
     <<P(<<"filter", "employees", "team_id", "gte">>, <<1>>)>>,
     <<P(<<"filter", "notes", "size", "lt">>, <<2>>), P(<<"filter", "name">>, <<2>>)>>}
Shaping ==
    {<<>>, <<P(<<"sort">>, <<By("ASC", None, "name")>>)>>,
     <<P(<<"sort">>, <<By("DESC", "employees", "name"), By("ASC", None, "id")>>)>>,
     <<P(<<"page", "number">>, <<1>>), P(<<"page", "size">>, <<1>>)>>,
     <<P(<<"page", "number">>, <<2>>), P(<<"page", "size">>, <<1>>), P(<<"stats", "total">>, <<"count">>)>>,
     <<P(<<"page", "number">>, <<0>>), P(<<"page", "size">>, <<1>>)>>,
     <<P(<<"page", "number">>, <<1>>), P(<<"page", "size">>, <<-1>>)>>,
     <<P(<<"page", "number">>, <<0>>), P(<<"page", "size">>, <<-1>>)>>,
     <<P(<<"page", "number">>, <<5>>), P(<<"page", "size">>, <<2>>)>>,
     <<P(<<"page", "size">>, <<1>>)>>,
     <<P(<<"page", "number">>, <<1>>), P(<<"page", "size">>, <<1>>), P(<<"sort">>, <<By("ASC", None, "id")>>)>>,
     <<P(<<"fields", "employees">>, <<"name">>), P(<<"fields", "teams">>, <<"name">>)>>,
     <<P(<<"fields", "teams">>, <<>>)>>, <<P(<<"fields", "employees", "gorp">>, <<"name">>)>>,
     <<P(<<"fields", "notes">>, <<"title", "gorp">>)>>,
     <<P(<<"stats", "total">>, <<"count">>)>>, <<P(<<"stats", "employees", "total">>, <<"count">>)>>,
     <<P(<<"stats", "size">>, <<"sum">>)>>, <<P(<<"stats", "name">>, <<"sum">>)>>,
     <<P(<<"stats", "name">>, <<"min">>), P(<<"stats", "total">>, <<"count">>)>>,
     <<P(<<"stats", "name">>, <<"other">>)>>, <<P(<<"stats", "employees", "name">>, <<>>)>>,
     <<P(<<"stats", "employees", "total">>, <<>>)>>, <<P(<<"stats", "employees", "name", "gorp">>, <<"min">>)>>,
     <<P(<<"stats", "employees", "gorp">>, <<"min">>), P(<<"stats", "total">>, <<"count">>),
       P(<<"stats", "employees", "name">>, <<"max">>)>>}
IncludeNames == {<<>>, <<"employees">>, <<"employees", "notes">>, <<"employees", "teams">>, <<"teams">>,
                 <<"notes">>, <<"meetings">>}
MCIncludes == {IF names = <<>> THEN <<>> ELSE <<P(<<"include">>, <<names>>)>> : names \in IncludeNames}
              \cup {<<P(<<"include">>, <<<<"notes">>, <<"teams", "employees">>>>)>>}

\* Filters and shapes that meet in one request.
Together ==
    {f \o s : f \in {<<P(<<"filter", "employees", "name">>, <<1>>)>>, <<P(<<"filter", "id", "gt">>, <<1>>)>>},
               s \in {<<P(<<"stats", "total">>, <<"count">>), P(<<"page", "number">>, <<1>>),
                         P(<<"page", "size">>, <<1>>)>>,
                       <<P(<<"stats", "employees", "total">>, <<"count">>),
                         P(<<"fields", "employees">>, <<"name">>)>>}}

\* ... and any of the others alone, with every include.
Askings == {f \o i : f \in Filtering \cup Shaping \cup Together, i \in MCIncludes}

MCRequests ==
    {[kind |-> "all", type |-> t, id |-> 1, params |-> p] : t \in {"teams", "employees"}, p \in Askings}
    \cup {[kind |-> "find", type |-> t, id |-> id, params |-> p] :
            t \in {"teams", "employees"}, id \in {1, 2, Blank}, p \in MCIncludes}
    \cup {[kind |-> "find", type |-> "employees", id |-> 2, params |-> s \o p] :
            s \in Shaping, p \in {<<>>, <<P(<<"include">>, <<<<"notes">>>>)>>}}
=============================================================================
