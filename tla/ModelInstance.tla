---------------------------- MODULE ModelInstance ----------------------------
(***************************************************************************)
(* Records of a table in the hands of several requests                     *)
(* (src/model/model-instance.c, and find and new of model.c).  An instance *)
(* keeps a list of attribute records with a dirty flag; save validates,    *)
(* collects the dirty ones, runs the before-callbacks, writes them in one  *)
(* statement, runs the after-callbacks and clears the flags.  A request    *)
(* works on its instance alone; the table is shared, one statement at a    *)
(* time.  The application's calls and its callbacks are arbitrary.         *)
(***************************************************************************)
EXTENDS Naturals, Sequences

CONSTANTS Instances,    \* instances, each of one request
          Attrs,        \* the attributes of the model
          Order,        \* the same in the order of a row's columns
          Required,     \* those with a presence validation
          Values,       \* non-NULL values
          Empty,        \* "", what PQgetvalue returns for a NULL column
          NoValue,      \* NULL
          NoRow,
          MaxId,        \* bound: rows ever inserted
          MaxRecords,   \* bound: attribute records of an instance (100 in the code)
          MaxSets       \* bound: calls of set, of all instances together

Ids     == 1..MaxId
NoId    == 0
Loaded  == Values \cup {Empty}
Rows    == [Attrs -> Loaded \cup {NoValue}]
Records == [name : Attrs, value : Loaded \cup {NoValue}, dirty : BOOLEAN]

ASSUME ModelAssumption ==
    /\ Order \in Seq(Attrs) /\ Len(Order) <= MaxRecords
    /\ \A a \in Attrs : \E n \in 1..Len(Order) : Order[n] = a
    /\ \A n, m \in 1..Len(Order) : Order[n] = Order[m] => n = m
    /\ Required \subseteq Attrs /\ NoRow \notin Rows
    /\ Empty \notin Values /\ NoValue \notin Values \cup {Empty}
    /\ MaxId \in Nat \ {0} /\ MaxRecords \in Nat /\ MaxSets \in Nat

VARIABLES
    rows,      \* [Ids -> Rows \cup {NoRow}], the table
    lastId,    \* the sequence behind its ids
    id,        \* [Instances -> Ids \cup {NoId}], instance->id
    attrs,     \* [Instances -> Seq(Records)], instance->attributes
    pc,        \* where each instance's request is
    pending,   \* [Instances -> [1..MaxRecords -> ...]], values save will write
    \* history
    touched,   \* [Instances -> SUBSET Attrs], set since the instance exists
    inserts,   \* [Instances -> Nat], INSERTs that succeeded for it
    strayed,   \* instances whose row and flags may differ for a known reason
    sets

instance == <<id, attrs, pending>>
history  == <<touched, inserts, strayed, sets>>
vars     == <<rows, lastId, id, attrs, pc, pending, history>>

Indices(i) == 1..Len(attrs[i])

TypeOK ==
    /\ rows \in [Ids -> Rows \cup {NoRow}] /\ lastId \in 0..MaxId
    /\ id \in [Instances -> Ids \cup {NoId}]
    /\ attrs \in [Instances -> Seq(Records)]
    /\ DOMAIN pending = Instances
    /\ pc \in [Instances -> {"none", "idle", "before", "after", "crashed"}]
    /\ \A i \in Instances :
         /\ Len(attrs[i]) <= MaxRecords
         /\ DOMAIN pending[i] \subseteq Indices(i)
         /\ \A k \in DOMAIN pending[i] : pending[i][k] \in Loaded \cup {NoValue}
         /\ (pc[i] \notin {"before", "after"} => pending[i] = <<>>)
    /\ touched \in [Instances -> SUBSET Attrs] /\ inserts \in [Instances -> 0..MaxId]
    /\ strayed \subseteq Instances /\ sets \in 0..MaxSets

Record(a, v, dirty) == [name |-> a, value |-> v, dirty |-> dirty]

\* An empty table, or one row with NULL or a value where nothing is required.
Init ==
    /\ \/ lastId = 0 /\ rows = [k \in Ids |-> NoRow]
       \/ /\ lastId = 1
          /\ \E r \in [Attrs -> Values \cup {NoValue}] :
               /\ \A a \in Required : r[a] # NoValue
               /\ rows = [k \in Ids |-> IF k = 1 THEN r ELSE NoRow]
    /\ id = [i \in Instances |-> NoId] /\ attrs = [i \in Instances |-> <<>>]
    /\ pc = [i \in Instances |-> "none"] /\ pending = [i \in Instances |-> <<>>]
    /\ touched = [i \in Instances |-> {}] /\ inserts = [i \in Instances |-> 0]
    /\ strayed = {} /\ sets = 0

-----------------------------------------------------------------------------
(* The application gets an instance. *)

\* model->new
New(i) ==
    /\ pc[i] = "none"
    /\ pc' = [pc EXCEPT ![i] = "idle"]
    /\ UNCHANGED <<rows, lastId, id, attrs, pending, history>>

\* model->find: one clean record per column, a NULL column as an empty string.
Load(v) == IF v = NoValue THEN Empty ELSE v

Find(i) ==
    /\ pc[i] = "none"
    /\ \E k \in {k \in Ids : rows[k] # NoRow} :
         /\ id' = [id EXCEPT ![i] = k]
         /\ attrs' = [attrs EXCEPT ![i] =
                        [n \in DOMAIN Order |-> Record(Order[n], Load(rows[k][Order[n]]), FALSE)]]
    /\ pc' = [pc EXCEPT ![i] = "idle"]
    /\ UNCHANGED <<rows, lastId, pending, history>>

-----------------------------------------------------------------------------
(* get and set *)

\* The first record with the name, 0 if there is none.
First(i, a) ==
    LET at == {n \in Indices(i) : attrs[i][n].name = a} IN
    IF at = {} THEN 0 ELSE CHOOSE n \in at : \A m \in at : n <= m

Get(i, a) == IF First(i, a) = 0 THEN NoValue ELSE attrs[i][First(i, a)].value

\* Faulty variant: the flag of an existing record is not set.
AssignClean(i, a, v) ==
    IF Get(i, a) # NoValue
    THEN attrs' = [attrs EXCEPT ![i][First(i, a)] = Record(a, v, @.dirty)]
    ELSE /\ Len(attrs[i]) < MaxRecords
         /\ attrs' = [attrs EXCEPT ![i] = Append(@, Record(a, v, TRUE))]

\* instance->set: a record whose value is NULL is not found, another is added.
Assign(i, a, v) ==
    IF Get(i, a) # NoValue
    THEN attrs' = [attrs EXCEPT ![i][First(i, a)] = Record(a, v, TRUE)]
    ELSE /\ Len(attrs[i]) < MaxRecords
         /\ attrs' = [attrs EXCEPT ![i] = Append(@, Record(a, v, TRUE))]

\* The application calls set.
Set(i) ==
    /\ pc[i] = "idle"
    /\ \E a \in Attrs, v \in Values \cup {NoValue} :
         /\ Assign(i, a, v)
         /\ touched' = [touched EXCEPT ![i] = @ \cup {a}]
    /\ sets < MaxSets /\ sets' = sets + 1
    /\ UNCHANGED <<rows, lastId, id, pc, pending, inserts, strayed>>

\* A callback of save calls set: after the dirty records were collected and
\* before their flags are cleared.
CallbackSet(i) ==
    /\ pc[i] \in {"before", "after"}
    /\ \E a \in Attrs, v \in Values \cup {NoValue} :
         /\ Assign(i, a, v)
         /\ touched' = [touched EXCEPT ![i] = @ \cup {a}]
    /\ sets < MaxSets /\ sets' = sets + 1
    /\ strayed' = strayed \cup {i}
    /\ UNCHANGED <<rows, lastId, id, pc, pending, inserts>>

-----------------------------------------------------------------------------
(* save *)

\* Faulty variant: a record that is there counts as present.
ValidAnyRecord(i) == \A a \in Required : First(i, a) # 0

\* validate: presence looks at what get returns.
Valid(i) == \A a \in Required : Get(i, a) # NoValue

\* Faulty variant: every attribute is written.
AllRecords(i) == Indices(i)

DirtyRecords(i) == {n \in Indices(i) : attrs[i][n].dirty}

\* beforeSave has not refused; the instance is valid and has something to
\* write: the values to write are collected here.
Save(i) ==
    /\ pc[i] = "idle"
    /\ Valid(i) /\ DirtyRecords(i) # {}
    /\ pending' = [pending EXCEPT ![i] = [n \in DirtyRecords(i) |-> attrs[i][n].value]]
    /\ pc' = [pc EXCEPT ![i] = "before"]
    /\ UNCHANGED <<rows, lastId, id, attrs, history>>

\* beforeUpdate or beforeCreate refuses: the flags stay as they are.
Refused(i) ==
    /\ pc[i] = "before"
    /\ pending' = [pending EXCEPT ![i] = <<>>]
    /\ pc' = [pc EXCEPT ![i] = "idle"]
    /\ UNCHANGED <<rows, lastId, id, attrs, history>>

NameOf(i, n) == attrs[i][n].name
Columns(i)   == {NameOf(i, n) : n \in DOMAIN pending[i]}

\* The server refuses a statement that names a column twice.
Repeated(i) == \E n, m \in DOMAIN pending[i] : n # m /\ NameOf(i, n) = NameOf(i, m)
Written(i, a) == pending[i][CHOOSE n \in DOMAIN pending[i] : NameOf(i, n) = a]

\* Other instances of the row no longer agree with it.
Outdated(i, k) == {j \in Instances \ {i} : id[j] = k}

\* Faulty variant: the id that INSERT returns is not kept.
InsertWithoutId(i) ==
    /\ pc[i] = "before" /\ id[i] = NoId
    /\ ~Repeated(i) /\ lastId < MaxId
    /\ lastId' = lastId + 1
    /\ rows' = [rows EXCEPT ![lastId'] =
                  [a \in Attrs |-> IF a \in Columns(i) THEN Written(i, a) ELSE NoValue]]
    /\ inserts' = [inserts EXCEPT ![i] = @ + 1]
    /\ pc' = [pc EXCEPT ![i] = "after"]
    /\ UNCHANGED <<id, attrs, pending, touched, strayed, sets>>

\* INSERT ... RETURNING id
Insert(i) ==
    /\ pc[i] = "before" /\ id[i] = NoId
    /\ ~Repeated(i) /\ lastId < MaxId
    /\ lastId' = lastId + 1
    /\ rows' = [rows EXCEPT ![lastId'] =
                  [a \in Attrs |-> IF a \in Columns(i) THEN Written(i, a) ELSE NoValue]]
    /\ id' = [id EXCEPT ![i] = lastId']
    /\ inserts' = [inserts EXCEPT ![i] = @ + 1]
    /\ pc' = [pc EXCEPT ![i] = "after"]
    /\ UNCHANGED <<attrs, pending, touched, strayed, sets>>

\* INSERT fails, for its text or for the server's reasons: the id is read from
\* a result without rows, strlen(NULL), and the process with all its requests
\* is gone.
InsertCrashes(i) ==
    /\ pc[i] = "before" /\ id[i] = NoId
    /\ pc' = [j \in Instances |-> "crashed"]
    /\ id' = [j \in Instances |-> NoId] /\ attrs' = [j \in Instances |-> <<>>]
    /\ pending' = [j \in Instances |-> <<>>]
    /\ UNCHANGED <<rows, lastId, history>>

\* UPDATE ... WHERE id = ...: of no row at all if the row is gone.
Update(i) ==
    /\ pc[i] = "before" /\ id[i] # NoId /\ ~Repeated(i)
    /\ rows' = IF rows[id[i]] = NoRow THEN rows
               ELSE [rows EXCEPT ![id[i]] =
                       [a \in Attrs |-> IF a \in Columns(i) THEN Written(i, a) ELSE @[a]]]
    /\ strayed' = strayed \cup Outdated(i, id[i])
    /\ pc' = [pc EXCEPT ![i] = "after"]
    /\ UNCHANGED <<lastId, id, attrs, pending, touched, inserts, sets>>

\* UPDATE fails likewise: logged, and save goes on to clear the flags.
UpdateFails(i) ==
    /\ pc[i] = "before" /\ id[i] # NoId
    /\ strayed' = strayed \cup {i}
    /\ pc' = [pc EXCEPT ![i] = "after"]
    /\ UNCHANGED <<rows, lastId, id, attrs, pending, touched, inserts, sets>>

\* The flags of the collected records are cleared, then afterSave runs.
ClearFlags(i) ==
    /\ pc[i] = "after"
    /\ attrs' = [attrs EXCEPT ![i] =
                   [n \in DOMAIN @ |-> IF n \in DOMAIN pending[i]
                                       THEN [@[n] EXCEPT !.dirty = FALSE] ELSE @[n]]]
    /\ pending' = [pending EXCEPT ![i] = <<>>]
    /\ pc' = [pc EXCEPT ![i] = "idle"]
    /\ UNCHANGED <<rows, lastId, id, history>>

-----------------------------------------------------------------------------
(* destroy: the row goes, the instance keeps its id; a DELETE that fails       *)
(* changes nothing.                                                          *)
Destroy(i) ==
    /\ pc[i] = "idle" /\ id[i] # NoId
    /\ rows' = [rows EXCEPT ![id[i]] = NoRow]
    /\ strayed' = strayed \cup {j \in Instances : id[j] = id[i]}
    /\ UNCHANGED <<lastId, id, attrs, pc, pending, touched, inserts, sets>>

-----------------------------------------------------------------------------
SaveSteps(i) ==
    \/ Save(i) \/ CallbackSet(i) \/ Refused(i) \/ Insert(i) \/ InsertCrashes(i)
    \/ Update(i) \/ UpdateFails(i) \/ ClearFlags(i)

Next == \E i \in Instances : New(i) \/ Find(i) \/ Set(i) \/ SaveSteps(i) \/ Destroy(i)

Spec == Init /\ [][Next]_vars

-----------------------------------------------------------------------------
(* Properties. *)

\* Nothing the application set is lost: where the newest record of an attribute
\* differs from the row, it is still dirty and a later save will write it.
\* Excepted are the instances whose statement failed, whose callbacks of save
\* called set, or whose row another instance has changed.
UnsavedIsDirty ==
    \A i \in Instances \ strayed :
        id[i] # NoId /\ pc[i] = "idle" =>
            /\ rows[id[i]] # NoRow
            /\ \A n \in Indices(i) :
                 \/ attrs[i][n].dirty
                 \/ \E m \in Indices(i) : m > n /\ NameOf(i, m) = NameOf(i, n)
                 \/ LET stored == rows[id[i]][NameOf(i, n)]
                    IN  attrs[i][n].value \in {stored, Load(stored)}

\* A save writes no column that its own application did not set: of two
\* requests that change different attributes of a record, neither undoes the
\* other's work, however old what they loaded is.
OnlyOwnColumns ==
    [][\A k \in Ids : rows[k] # NoRow /\ rows'[k] # NoRow /\ rows'[k] # rows[k] =>
         \E i \in Instances :
            /\ id[i] = k /\ pc[i] = "before" /\ pc'[i] = "after"
            /\ \A a \in Attrs : rows'[k][a] # rows[k][a] => a \in touched[i]]_vars

\* A row never lacks a required value, although set takes NULL, although the
\* validation looks at the first record of an attribute and the statement at
\* the dirty ones, and although the callbacks run in between.
RequiredStored ==
    \A k \in Ids : rows[k] # NoRow => \A a \in Required : rows[k][a] # NoValue

\* However often a new instance is saved, it becomes one row.
InsertedOnce == \A i \in Instances : inserts[i] <= 1

\* What test/model/model.c:103-106 says of set: get returns the value.
GetReturnsWhatWasSet ==
    [][\A i \in Instances, a \in Attrs, v \in Values :
         (Get(i, a) # v /\ Assign(i, a, v)) => Get(i, a)' = v]_vars

=============================================================================
