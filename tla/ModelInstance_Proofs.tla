------------------------ MODULE ModelInstance_Proofs ------------------------
(***************************************************************************)
(* Theorems about ModelInstance, for any number of requests, columns and   *)
(* values.                                                                 *)
(***************************************************************************)
EXTENDS ModelInstance, FiniteSetTheorems, SequenceTheorems, TLAPS

\* An instance that nobody asked for is empty; one that was written has an id.
Started(i) ==
    /\ pc[i] = "none" => id[i] = NoId /\ attrs[i] = <<>> /\ inserts[i] = 0
    /\ pc[i] = "after" => id[i] # NoId
    /\ inserts[i] <= 1
    /\ inserts[i] = 1 => id[i] # NoId \/ pc[i] = "crashed"

\* The ids given out are those up to lastId.
Numbered == \A k \in Ids : k > lastId => rows[k] = NoRow

\* What is dirty, or will be written, its application has set.
Own(i) ==
    \A n \in Indices(i) : attrs[i][n].dirty \/ n \in DOMAIN pending[i] => NameOf(i, n) \in touched[i]

\* An attribute has more than one record only when the first is NULL.
IsFirst(i, n)  == \A l \in Indices(i) : l < n => NameOf(i, l) # NameOf(i, n)
NullFirst(i) ==
    \A n, m \in Indices(i) :
      IsFirst(i, n) /\ n < m /\ NameOf(i, n) = NameOf(i, m) => attrs[i][n].value = NoValue

\* A new instance has nothing but dirty records.
NewIsDirty(i) == id[i] = NoId => \A n \in Indices(i) : attrs[i][n].dirty

\* What save has collected has no NULL for a required column and, for a new
\* row, has every required column.
Collected(i) ==
    pc[i] = "before" =>
      /\ \A n \in DOMAIN pending[i] : NameOf(i, n) \in Required => pending[i][n] # NoValue
      /\ id[i] = NoId => \A a \in Required : \E n \in DOMAIN pending[i] : NameOf(i, n) = a

\* Where nothing strange has happened: a later record of an attribute is as
\* dirty as an earlier one, what save has collected is what the records hold,
\* and the newest record of an attribute is dirty or what the row has.
Newest(i, n) == \A m \in Indices(i) : m > n => NameOf(i, m) # NameOf(i, n)
Stored(i, n) == attrs[i][n].value \in {rows[id[i]][NameOf(i, n)], Load(rows[id[i]][NameOf(i, n)])}
LaterIsDirty(i) == \A n, m \in Indices(i) :
    n < m /\ NameOf(i, n) = NameOf(i, m) /\ attrs[i][n].dirty => attrs[i][m].dirty
InHand(i) == pc[i] \in {"before", "after"} =>
    /\ DOMAIN pending[i] = DirtyRecords(i)
    /\ \A n \in DOMAIN pending[i] : pending[i][n] = attrs[i][n].value
RowKnown(i) == id[i] # NoId =>
    /\ rows[id[i]] # NoRow
    /\ \A n \in Indices(i) :
         Newest(i, n) /\ (attrs[i][n].dirty => pc[i] = "after") => Stored(i, n)
Agrees(i) == LaterIsDirty(i) /\ InHand(i) /\ RowKnown(i)

Each(i) == Started(i) /\ Own(i) /\ NullFirst(i) /\ NewIsDirty(i) /\ Collected(i)

IInv ==
    /\ TypeOK /\ Numbered /\ RequiredStored
    /\ \A i \in Instances : Each(i)
    /\ \A i \in Instances \ strayed : Agrees(i)

-----------------------------------------------------------------------------
(* Reading the records. *)

\* The records of an instance have a name, a value and a flag.
LEMMA RecordType ==
    ASSUME TypeOK, NEW i \in Instances
    PROVE  /\ attrs[i] \in Seq(Records) /\ Len(attrs[i]) \in Nat /\ Indices(i) \subseteq Nat \ {0}
           /\ \A n \in Indices(i) : /\ attrs[i][n] \in Records
                                    /\ attrs[i][n].name \in Attrs
                                    /\ attrs[i][n].value \in Loaded \cup {NoValue}
                                    /\ attrs[i][n].dirty \in BOOLEAN
  <1>1. attrs[i] \in Seq(Records)
    BY DEF TypeOK
  <1>2. Len(attrs[i]) \in Nat /\ \A n \in Indices(i) : attrs[i][n] \in Records
    BY <1>1 DEF Indices
  <1>3. Indices(i) \subseteq Nat \ {0}
    BY <1>2 DEF Indices
  <1>4. QED
    BY <1>1, <1>2, <1>3 DEF Records

\* Of a set of positions some is the least.
LEMMA LeastPosition ==
    ASSUME NEW S, S \subseteq Nat \ {0}, S # {}
    PROVE  \E n \in S : \A m \in S : n <= m
  <1> DEFINE Upto == {1..f : f \in S}
  <1>1. \A f \in S : 1..f \in FiniteSubsetsOf(Nat)
    BY FS_Interval DEF FiniteSubsetsOf
  <1>2. Upto \subseteq FiniteSubsetsOf(Nat) /\ Upto # {}
    BY <1>1
  <1>3. PICK least \in Upto : \A other \in Upto : <<other, least>> \notin StrictSubsetOrdering(Nat)
    BY <1>2, FS_StrictSubsetOrderingWellFounded, WFMin
  <1>4. PICK f \in S : least = 1..f
    OBVIOUS
  <1>5. ASSUME NEW u \in S, u < f
        PROVE  FALSE
    <2>1. 1..u \in SUBSET (1..f) /\ 1..u # 1..f /\ 1..u \in SUBSET Nat /\ 1..f \in SUBSET Nat
      BY <1>5
    <2>2. <<1..u, 1..f>> \in StrictSubsetOrdering(Nat)
      BY <2>1 DEF StrictSubsetOrdering
    <2>3. QED
      BY <1>3, <1>4, <2>2
  <1>6. QED
    BY <1>5

\* First is the first record with the name, if there is one.
LEMMA FirstRecord ==
    ASSUME TypeOK, NEW i \in Instances, NEW a
    PROVE  \/ First(i, a) = 0 /\ \A n \in Indices(i) : NameOf(i, n) # a
           \/ /\ First(i, a) \in Indices(i) /\ NameOf(i, First(i, a)) = a
              /\ IsFirst(i, First(i, a))
              /\ \A n \in Indices(i) : NameOf(i, n) = a => First(i, a) <= n
  <1> DEFINE at == {n \in Indices(i) : NameOf(i, n) = a}
  <1>1. First(i, a) = IF at = {} THEN 0 ELSE CHOOSE n \in at : \A m \in at : n <= m
    BY DEF First, NameOf
  <1>2. at \subseteq Nat \ {0}
    BY RecordType
  <1>3. CASE at = {}
    BY <1>1, <1>3
  <1>4. CASE at # {}
    <2> HIDE DEF at
    <2>1. \E n \in at : \A m \in at : n <= m
      BY <1>2, <1>4, LeastPosition
    <2>2. First(i, a) \in at /\ \A m \in at : First(i, a) <= m
      BY <1>1, <1>4, <2>1
    <2>3. First(i, a) \in Nat /\ \A l \in Indices(i) : l \in Nat
      BY <1>2, <2>2, RecordType
    <2>4. \A l, f \in Nat : l < f => ~(f <= l)
      OBVIOUS
    <2>5. \A l \in Indices(i) : l < First(i, a) => NameOf(i, l) # a
      BY <2>2, <2>3, <2>4 DEF at
    <2>6. QED
      BY <2>2, <2>5 DEF at, IsFirst
  <1>5. QED
    BY <1>3, <1>4

\* An attribute that get finds has one record.
LEMMA GetIsOnly ==
    ASSUME TypeOK, NEW i \in Instances, NEW a, NullFirst(i), Get(i, a) # NoValue
    PROVE  /\ First(i, a) \in Indices(i) /\ attrs[i][First(i, a)].value # NoValue
           /\ \A n \in Indices(i) : NameOf(i, n) = a <=> n = First(i, a)
  <1>1. First(i, a) # 0 /\ attrs[i][First(i, a)].value # NoValue
    BY DEF Get
  <1>2. /\ First(i, a) \in Indices(i) /\ NameOf(i, First(i, a)) = a /\ IsFirst(i, First(i, a))
        /\ \A n \in Indices(i) : NameOf(i, n) = a => First(i, a) <= n
    BY <1>1, FirstRecord
  <1>3. ASSUME NEW n \in Indices(i), NameOf(i, n) = a, n # First(i, a)
        PROVE  FALSE
    <2>1. First(i, a) < n
      BY <1>2, <1>3, RecordType
    <2>2. QED
      BY <1>1, <1>2, <1>3, <2>1 DEF NullFirst
  <1>4. QED
    BY <1>1, <1>2, <1>3

-----------------------------------------------------------------------------
(* set *)

\* What set does to the records of its instance: it writes the attribute's
\* only record, or adds one where the first is NULL or there is none.
Assigned(i, a, v, p) ==
    /\ attrs'[i] \in Seq(Records) /\ Len(attrs'[i]) <= MaxRecords
    /\ p \in Indices(i)' /\ attrs'[i][p] = Record(a, v, TRUE)
    /\ \A n \in Indices(i) : n \in Indices(i)' /\ (n # p => attrs'[i][n] = attrs[i][n])
    /\ \A n \in Indices(i)' : n = p \/ n \in Indices(i)
    /\ \/ p \in Indices(i) /\ \A n \in Indices(i) : NameOf(i, n) = a <=> n = p
       \/ /\ \A n \in Indices(i) : n < p
          /\ \A n \in Indices(i) : IsFirst(i, n) /\ NameOf(i, n) = a => attrs[i][n].value = NoValue

\* An assignment is such a write.
LEMMA AssignWritesOne ==
    ASSUME TypeOK, NEW i \in Instances, NEW a \in Attrs, NEW v \in Loaded \cup {NoValue},
           NullFirst(i), Assign(i, a, v)
    PROVE  /\ DOMAIN attrs' = Instances /\ \A j \in Instances \ {i} : attrs'[j] = attrs[j]
           /\ \E p \in Nat : Assigned(i, a, v, p)
  <1> DEFINE rec == Record(a, v, TRUE)
  <1>1. rec \in Records
    BY DEF Record, Records
  <1>2. /\ attrs[i] \in Seq(Records) /\ Len(attrs[i]) \in Nat /\ Len(attrs[i]) <= MaxRecords
        /\ attrs \in [Instances -> Seq(Records)] /\ MaxRecords \in Nat
    BY RecordType, ModelAssumption DEF TypeOK
  <1>3. CASE Get(i, a) # NoValue
    <2> DEFINE p == First(i, a)
    <2>1. p \in Indices(i) /\ \A n \in Indices(i) : NameOf(i, n) = a <=> n = p
      BY <1>3, GetIsOnly
    <2>2. attrs' = [attrs EXCEPT ![i] = [attrs[i] EXCEPT ![p] = rec]]
      BY <1>3 DEF Assign
    <2> HIDE DEF p, rec
    <2>3. attrs'[i] = [attrs[i] EXCEPT ![p] = rec]
      BY <1>2, <2>2
    <2>4. attrs'[i] \in Seq(Records) /\ Len(attrs'[i]) = Len(attrs[i])
      <3>1. p \in 1..Len(attrs[i])
        BY <2>1 DEF Indices
      <3>2. QED
        BY <1>1, <1>2, <2>3, <3>1, ExceptSeq
    <2>5. attrs'[i][p] = rec /\ \A n \in Indices(i) : n # p => attrs'[i][n] = attrs[i][n]
      BY <1>2, <2>1, <2>3 DEF Indices
    <2>6. Indices(i)' = Indices(i)
      BY <2>4 DEF Indices
    <2>7. Assigned(i, a, v, p) /\ p \in Nat
      BY <1>2, <2>1, <2>4, <2>5, <2>6, RecordType DEF Assigned, rec
    <2>8. QED
      BY <1>2, <2>2, <2>7
  <1>4. CASE Get(i, a) = NoValue
    <2> DEFINE p == Len(attrs[i]) + 1
    <2>1. Len(attrs[i]) < MaxRecords /\ attrs' = [attrs EXCEPT ![i] = Append(attrs[i], rec)]
      BY <1>4 DEF Assign
    <2>2. attrs'[i] = Append(attrs[i], rec)
      BY <1>2, <2>1
    <2> HIDE DEF rec
    <2>3. /\ attrs'[i] \in Seq(Records) /\ Len(attrs'[i]) = p /\ attrs'[i][p] = rec
          /\ \A n \in 1..Len(attrs[i]) : attrs'[i][n] = attrs[i][n]
      BY <1>1, <1>2, <2>2
    <2>4. /\ p \in Nat /\ p <= MaxRecords /\ p \in 1..p
          /\ \A n \in 1..Len(attrs[i]) : n \in 1..p /\ n < p
          /\ \A n \in 1..p : n = p \/ n \in 1..Len(attrs[i])
      BY <1>2, <2>1
    <2>5. \A n \in Indices(i) : IsFirst(i, n) /\ NameOf(i, n) = a => attrs[i][n].value = NoValue
      <3> SUFFICES ASSUME NEW n \in Indices(i), IsFirst(i, n), NameOf(i, n) = a
                   PROVE  attrs[i][n].value = NoValue
        OBVIOUS
      <3>1. First(i, a) \in Indices(i) /\ NameOf(i, First(i, a)) = a /\ First(i, a) <= n
        BY FirstRecord
      <3>2. First(i, a) \in Nat /\ n \in Nat /\ First(i, a) # 0
        BY <3>1, RecordType
      <3>3. First(i, a) = n
        BY <3>1, <3>2 DEF IsFirst
      <3>4. QED
        BY <1>4, <3>2, <3>3 DEF Get
    <2>6. Indices(i)' = 1..p /\ Indices(i) = 1..Len(attrs[i])
      BY <2>3 DEF Indices
    <2> HIDE DEF p
    <2>7. Assigned(i, a, v, p)
      BY <2>3, <2>4, <2>5, <2>6 DEF Assigned, rec
    <2>8. QED
      BY <1>2, <2>1, <2>4, <2>7
  <1>5. QED
    BY <1>3, <1>4

\* A step that leaves an instance's variables alone.
Same(j) ==
    /\ id'[j] = id[j] /\ attrs'[j] = attrs[j] /\ pc'[j] = pc[j] /\ pending'[j] = pending[j]
    /\ touched'[j] = touched[j] /\ inserts'[j] = inserts[j]

\* Such a step keeps what was said of it alone,
LEMMA SameEach ==
    ASSUME NEW j, Same(j), Each(j)
    PROVE  Each(j)'
  <1>1. Indices(j)' = Indices(j) /\ \A n : NameOf(j, n)' = NameOf(j, n)
    BY DEF Same, Indices, NameOf
  <1>2. Started(j)' /\ Own(j)' /\ NewIsDirty(j)' /\ Collected(j)'
    BY <1>1 DEF Same, Each, Started, Own, NewIsDirty, Collected
  <1>3. NullFirst(j)'
    BY <1>1 DEF Same, Each, NullFirst, IsFirst
  <1>4. QED
    BY <1>2, <1>3 DEF Each

\* and of it and its row, if that is left alone too.
LEMMA SameAgrees ==
    ASSUME NEW j, Same(j), id[j] # NoId => rows'[id[j]] = rows[id[j]], Agrees(j)
    PROVE  Agrees(j)'
  <1>1. Indices(j)' = Indices(j) /\ \A n : NameOf(j, n)' = NameOf(j, n)
    BY DEF Same, Indices, NameOf
  <1>2. DirtyRecords(j)' = DirtyRecords(j)
    BY <1>1 DEF Same, DirtyRecords
  <1>3. LaterIsDirty(j)' /\ InHand(j)'
    BY <1>1, <1>2 DEF Same, Agrees, LaterIsDirty, InHand
  <1>4. RowKnown(j)'
    <2>1. \A n : Newest(j, n)' <=> Newest(j, n)
      BY <1>1 DEF Newest
    <2>2. id[j] # NoId => \A n : Stored(j, n)' <=> Stored(j, n)
      BY <1>1 DEF Same, Stored, Load
    <2>3. QED
      BY <1>1, <2>1, <2>2 DEF Same, Agrees, RowKnown
  <1>5. QED
    BY <1>3, <1>4 DEF Agrees

\* A call of set changes records and touched, and neither row nor request.
SetOf(i, a, v) ==
    /\ Assign(i, a, v) /\ touched' = [touched EXCEPT ![i] = @ \cup {a}]
    /\ UNCHANGED <<rows, lastId, id, pc, pending, inserts>>

\* set keeps what is said of an instance alone,
LEMMA SetEach ==
    ASSUME TypeOK, NEW i \in Instances, NEW a \in Attrs, NEW v \in Loaded \cup {NoValue},
           Each(i), SetOf(i, a, v), pc[i] \in {"idle", "before", "after"}
    PROVE  Each(i)'
  <1>1. PICK p \in Nat : Assigned(i, a, v, p)
    BY AssignWritesOne DEF SetOf, Each
  <1>2. /\ NameOf(i, p)' = a /\ attrs'[i][p].dirty = TRUE
        /\ \A n \in Indices(i) : NameOf(i, n)' = NameOf(i, n)
    BY <1>1 DEF Assigned, Record, NameOf
  <1>3. touched'[i] = touched[i] \cup {a}
    BY DEF SetOf, TypeOK
  <1>4. DOMAIN pending[i] \subseteq Indices(i)
    BY DEF TypeOK
  <1>5. Started(i)'
    BY DEF Started, Each, SetOf
  <1>6. Own(i)'
    <2> SUFFICES ASSUME NEW n \in Indices(i)', attrs'[i][n].dirty \/ n \in DOMAIN pending'[i]
                 PROVE  NameOf(i, n)' \in touched'[i]
      BY DEF Own
    <2>1. CASE n = p
      BY <1>2, <1>3, <2>1
    <2>2. CASE n # p
      <3>1. n \in Indices(i) /\ attrs'[i][n] = attrs[i][n]
        BY <1>1, <2>2 DEF Assigned
      <3>2. NameOf(i, n) \in touched[i]
        BY <3>1 DEF Each, Own, SetOf
      <3>3. QED
        BY <1>2, <1>3, <3>1, <3>2
    <2>3. QED
      BY <2>1, <2>2
  <1>7. NullFirst(i)'
    <2> SUFFICES ASSUME NEW n \in Indices(i)', NEW m \in Indices(i)',
                        IsFirst(i, n)', n < m, NameOf(i, n)' = NameOf(i, m)'
                 PROVE  attrs'[i][n].value = NoValue
      BY DEF NullFirst
    <2>1. CASE p \in Indices(i) /\ \A l \in Indices(i) : NameOf(i, l) = a <=> l = p
      <3>1. n \in Indices(i) /\ m \in Indices(i)
        BY <1>1, <2>1 DEF Assigned
      <3>2. NameOf(i, n) = NameOf(i, m) /\ IsFirst(i, n)
        BY <1>1, <1>2, <3>1 DEF IsFirst, Assigned
      <3>3. n # m
        BY <3>1, RecordType
      <3>4. n # p
        BY <2>1, <3>1, <3>2, <3>3
      <3>5. attrs'[i][n] = attrs[i][n]
        BY <1>1, <3>1, <3>4 DEF Assigned
      <3>6. QED
        BY <3>1, <3>2, <3>5 DEF Each, NullFirst
    <2>2. CASE /\ \A l \in Indices(i) : l < p
               /\ \A l \in Indices(i) : IsFirst(i, l) /\ NameOf(i, l) = a => attrs[i][l].value = NoValue
      <3>1. \A l \in Indices(i) : l \in Nat /\ l # p
        BY <2>2, RecordType
      <3>2. n # p
        <4>1. ASSUME n = p PROVE FALSE
          <5>1. m \in Indices(i)
            BY <1>1, <3>1, <4>1 DEF Assigned
          <5>2. m < p /\ p < m /\ m \in Nat
            BY <2>2, <3>1, <4>1, <5>1
          <5>3. QED
            BY <5>2
        <4>2. QED
          BY <4>1
      <3>3. n \in Indices(i) /\ attrs'[i][n] = attrs[i][n] /\ NameOf(i, n)' = NameOf(i, n)
        BY <1>1, <1>2, <3>2 DEF Assigned
      <3>4. IsFirst(i, n)
        BY <1>1, <1>2, <3>3 DEF IsFirst, Assigned
      <3>5. CASE m = p
        BY <1>2, <2>2, <3>3, <3>4, <3>5
      <3>6. CASE m # p
        <4>1. m \in Indices(i) /\ NameOf(i, m)' = NameOf(i, m)
          BY <1>1, <1>2, <3>6 DEF Assigned
        <4>2. QED
          BY <3>3, <3>4, <4>1 DEF Each, NullFirst
      <3>7. QED
        BY <3>5, <3>6
    <2>3. QED
      BY <1>1, <2>1, <2>2 DEF Assigned
  <1>8. NewIsDirty(i)'
    BY <1>1, <1>2 DEF NewIsDirty, Each, SetOf, Assigned
  <1>9. Collected(i)'
    BY <1>2, <1>4 DEF Collected, Each, SetOf
  <1>10. QED
    BY <1>5, <1>6, <1>7, <1>8, <1>9 DEF Each

\* and, outside of save, what is known of its row.
LEMMA SetAgrees ==
    ASSUME TypeOK, NEW i \in Instances, NEW a \in Attrs, NEW v \in Loaded \cup {NoValue},
           Each(i), Agrees(i), SetOf(i, a, v), pc[i] = "idle"
    PROVE  Agrees(i)'
  <1>1. PICK p \in Nat : Assigned(i, a, v, p)
    BY AssignWritesOne DEF SetOf, Each
  <1>2. /\ NameOf(i, p)' = a /\ attrs'[i][p].dirty = TRUE
        /\ \A n \in Indices(i) : NameOf(i, n)' = NameOf(i, n)
    BY <1>1 DEF Assigned, Record, NameOf
  <1>3. LaterIsDirty(i)'
    <2> SUFFICES ASSUME NEW n \in Indices(i)', NEW m \in Indices(i)',
                        n < m, NameOf(i, n)' = NameOf(i, m)', attrs'[i][n].dirty
                 PROVE  attrs'[i][m].dirty
      BY DEF LaterIsDirty
    <2>1. CASE m = p
      BY <1>2, <2>1
    <2>2. CASE m # p
      <3>1. m \in Indices(i) /\ attrs'[i][m] = attrs[i][m] /\ NameOf(i, m)' = NameOf(i, m) /\ m \in Nat
        BY <1>1, <1>2, <2>2, RecordType DEF Assigned
      <3>2. n # p
        <4>1. ASSUME n = p PROVE FALSE
          <5>1. NameOf(i, m) = a /\ p < m
            BY <1>2, <3>1, <4>1
          <5>2. ~(m < p)
            BY <3>1, <5>1
          <5>3. QED
            BY <1>1, <2>2, <3>1, <5>1, <5>2 DEF Assigned
        <4>2. QED
          BY <4>1
      <3>3. n \in Indices(i) /\ attrs'[i][n] = attrs[i][n] /\ NameOf(i, n)' = NameOf(i, n)
        BY <1>1, <1>2, <3>2 DEF Assigned
      <3>4. QED
        BY <3>1, <3>3 DEF Agrees, LaterIsDirty
    <2>3. QED
      BY <2>1, <2>2
  <1>4. InHand(i)'
    BY DEF InHand, SetOf
  <1>5. RowKnown(i)'
    <2> SUFFICES ASSUME id[i] # NoId, NEW n \in Indices(i)', Newest(i, n)', ~attrs'[i][n].dirty
                 PROVE  Stored(i, n)'
      BY DEF RowKnown, Agrees, SetOf
    <2>1. n # p
      BY <1>2
    <2>2. n \in Indices(i) /\ attrs'[i][n] = attrs[i][n] /\ NameOf(i, n)' = NameOf(i, n)
      BY <1>1, <1>2, <2>1 DEF Assigned
    <2>3. Newest(i, n)
      BY <1>1, <1>2, <2>2 DEF Newest, Assigned
    <2>4. Stored(i, n)
      BY <2>2, <2>3 DEF Agrees, RowKnown
    <2>5. QED
      BY <2>2, <2>4 DEF Stored, SetOf, Load
  <1>6. QED
    BY <1>3, <1>4, <1>5 DEF Agrees

-----------------------------------------------------------------------------
(* find *)

\* What find makes of a row.
Loads(i, k) ==
    /\ rows[k] \in Rows /\ rows[k] # NoRow /\ id' = [id EXCEPT ![i] = k] /\ id'[i] = k
    /\ attrs' = [attrs EXCEPT ![i] = attrs'[i]]
    /\ attrs'[i] \in Seq(Records) /\ Len(attrs'[i]) <= MaxRecords
    /\ \A n \in Indices(i)' :
         /\ n \in 1..Len(Order) /\ NameOf(i, n)' = Order[n] /\ attrs'[i][n].dirty = FALSE
         /\ attrs'[i][n].value = Load(rows[k][Order[n]])

\* Find is such a load.
LEMMA FindLoads ==
    ASSUME TypeOK, NEW i \in Instances, Find(i)
    PROVE  \E k \in Ids : Loads(i, k)
  <1>1. PICK k \in Ids :
          /\ rows[k] # NoRow /\ id' = [id EXCEPT ![i] = k]
          /\ attrs' = [attrs EXCEPT ![i] =
                         [n \in DOMAIN Order |-> Record(Order[n], Load(rows[k][Order[n]]), FALSE)]]
    BY DEF Find
  <1> DEFINE loaded == [n \in DOMAIN Order |-> Record(Order[n], Load(rows[k][Order[n]]), FALSE)]
  <1>2. rows[k] \in Rows /\ id'[i] = k /\ attrs'[i] = loaded
    BY <1>1 DEF TypeOK
  <1>3. /\ DOMAIN Order = 1..Len(Order) /\ Len(Order) \in Nat /\ Len(Order) <= MaxRecords
        /\ \A n \in 1..Len(Order) : Order[n] \in Attrs
    BY ModelAssumption
  <1>4. \A n \in 1..Len(Order) : loaded[n] \in Records
    BY <1>2, <1>3 DEF Record, Records, Load, Rows, Loaded
  <1>5. loaded \in Seq(Records) /\ Len(loaded) = Len(Order) /\ DOMAIN loaded = 1..Len(Order)
    <2>1. loaded \in [1..Len(Order) -> Records]
      BY <1>3, <1>4
    <2> HIDE DEF loaded
    <2>2. QED
      BY <1>3, <2>1
  <1>6. \A n \in 1..Len(Order) : /\ loaded[n].name = Order[n] /\ loaded[n].dirty = FALSE
                                 /\ loaded[n].value = Load(rows[k][Order[n]])
    BY <1>3 DEF Record
  <1>7. attrs' = [attrs EXCEPT ![i] = attrs'[i]]
    BY <1>1, <1>2
  <1> HIDE DEF loaded
  <1>8. Indices(i)' = 1..Len(Order)
    BY <1>2, <1>5 DEF Indices
  <1>9. QED
    BY <1>1, <1>2, <1>3, <1>5, <1>6, <1>7, <1>8 DEF NameOf, Loads

-----------------------------------------------------------------------------
(* save *)

\* An instance that passes the validation and is new is written whole.
LEMMA SaveCollects ==
    ASSUME TypeOK, NEW i \in Instances, Each(i), Save(i)
    PROVE  Collected(i)'
  <1>1. /\ pending'[i] = [n \in DirtyRecords(i) |-> attrs[i][n].value]
        /\ id' = id /\ attrs' = attrs /\ Valid(i)
    BY DEF Save, TypeOK
  <1>2. DOMAIN pending'[i] = DirtyRecords(i) /\ DirtyRecords(i) \subseteq Indices(i)
    BY <1>1 DEF DirtyRecords
  <1>3. ASSUME NEW n \in DOMAIN pending'[i], NameOf(i, n) \in Required
        PROVE  pending'[i][n] # NoValue
    <2>1. n \in DirtyRecords(i) /\ n \in Indices(i) /\ pending'[i][n] = attrs[i][n].value
      BY <1>1, <1>2, <1>3
    <2>2. Get(i, NameOf(i, n)) # NoValue
      BY <1>1, <1>3 DEF Valid
    <2>3. QED
      BY <2>1, <2>2, GetIsOnly DEF Each
  <1>4. ASSUME id[i] = NoId, NEW a \in Required
        PROVE  \E n \in DOMAIN pending'[i] : NameOf(i, n) = a
    <2>1. First(i, a) \in Indices(i) /\ NameOf(i, First(i, a)) = a
      BY <1>1, GetIsOnly DEF Valid, Each
    <2>2. First(i, a) \in DirtyRecords(i)
      BY <1>4, <2>1 DEF Each, NewIsDirty, DirtyRecords
    <2>3. QED
      BY <1>2, <2>1, <2>2
  <1>5. QED
    BY <1>1, <1>3, <1>4 DEF Collected, NameOf

\* What is written to a column is what was collected for it.
LEMMA WrittenIsCollected ==
    ASSUME NEW i \in Instances, NEW a \in Columns(i)
    PROVE  \E n \in DOMAIN pending[i] : NameOf(i, n) = a /\ Written(i, a) = pending[i][n]
  BY DEF Columns, Written

\* The flags that are cleared are those of the records collected.
LEMMA FlagsCleared ==
    ASSUME TypeOK, NEW i \in Instances, ClearFlags(i)
    PROVE  /\ attrs' = [attrs EXCEPT ![i] = attrs'[i]]
           /\ attrs'[i] \in Seq(Records) /\ Len(attrs'[i]) = Len(attrs[i])
           /\ Indices(i)' = Indices(i)
           /\ \A n \in Indices(i) :
                /\ NameOf(i, n)' = NameOf(i, n) /\ attrs'[i][n].value = attrs[i][n].value
                /\ attrs'[i][n].dirty = IF n \in DOMAIN pending[i] THEN FALSE ELSE attrs[i][n].dirty
  <1> DEFINE Cleared == [n \in DOMAIN attrs[i] |-> IF n \in DOMAIN pending[i]
                            THEN [attrs[i][n] EXCEPT !.dirty = FALSE] ELSE attrs[i][n]]
  <1>1. attrs' = [attrs EXCEPT ![i] = Cleared]
    BY DEF ClearFlags
  <1>2. attrs'[i] = Cleared
    BY <1>1 DEF TypeOK
  <1>3. attrs[i] \in Seq(Records) /\ Len(attrs[i]) \in Nat /\ DOMAIN attrs[i] = 1..Len(attrs[i])
        /\ \A n \in 1..Len(attrs[i]) : attrs[i][n] \in Records
    BY RecordType DEF Indices
  <1>4. \A n \in 1..Len(attrs[i]) :
          /\ Cleared[n] \in Records
          /\ Cleared[n].name = attrs[i][n].name /\ Cleared[n].value = attrs[i][n].value
          /\ Cleared[n].dirty = IF n \in DOMAIN pending[i] THEN FALSE ELSE attrs[i][n].dirty
    BY <1>3 DEF Records
  <1>5. Cleared \in [1..Len(attrs[i]) -> Records]
    BY <1>3, <1>4
  <1>6. Cleared \in Seq(Records) /\ Len(Cleared) = Len(attrs[i])
    BY <1>3, <1>5
  <1>7. attrs' = [attrs EXCEPT ![i] = attrs'[i]]
    BY <1>1, <1>2
  <1> HIDE DEF Cleared
  <1>8. QED
    BY <1>2, <1>4, <1>6, <1>7 DEF Indices, NameOf

-----------------------------------------------------------------------------
(* What is kept of every instance. *)

\* So do the other steps of an instance.
LEMMA StepEach ==
    ASSUME TypeOK, NEW i \in Instances, Each(i),
           \/ New(i) \/ Find(i) \/ Save(i) \/ Refused(i) \/ Insert(i) \/ Update(i)
           \/ UpdateFails(i) \/ ClearFlags(i) \/ Destroy(i)
    PROVE  Each(i)'
  <1>1. /\ inserts \in [Instances -> 0..MaxId] /\ inserts[i] \in Nat /\ lastId \in Nat
        /\ id \in [Instances -> Ids \cup {NoId}] /\ NoId \notin Ids /\ MaxId \in Nat
        /\ DOMAIN pending = Instances /\ DOMAIN pending[i] \subseteq Indices(i)
        /\ pc[i] \notin {"before", "after"} => pending[i] = <<>>
        /\ pc \in [Instances -> {"none", "idle", "before", "after", "crashed"}]
    BY ModelAssumption DEF TypeOK, Ids, NoId
  <1>2. DOMAIN (<< >>) = {}
    OBVIOUS
  <1>3. ASSUME attrs' = attrs
        PROVE  NullFirst(i)' /\ Indices(i)' = Indices(i) /\ \A n : NameOf(i, n)' = NameOf(i, n)
    BY <1>3 DEF Each, NullFirst, IsFirst, Indices, NameOf
  <1>4. CASE New(i)
    <2>1. /\ attrs' = attrs /\ pending' = pending /\ id' = id /\ touched' = touched
          /\ inserts' = inserts /\ pc[i] = "none" /\ pc'[i] = "idle"
      BY <1>1, <1>4 DEF New, history
    <2>2. QED
      BY <1>3, <2>1 DEF Each, Started, Own, NewIsDirty, Collected
  <1>5. CASE Find(i)
    <2>1. PICK k \in Ids : Loads(i, k)
      BY <1>5, FindLoads
    <2>2. /\ pending' = pending /\ touched' = touched /\ pc'[i] = "idle" /\ inserts' = inserts
          /\ pc[i] = "none" /\ DOMAIN pending[i] = {}
      BY <1>1, <1>2, <1>5 DEF Find, history
    <2>3. NullFirst(i)'
      <3> SUFFICES ASSUME NEW n \in Indices(i)', NEW m \in Indices(i)',
                          n < m, NameOf(i, n)' = NameOf(i, m)'
                   PROVE  FALSE
        BY DEF NullFirst
      <3>1. n \in 1..Len(Order) /\ m \in 1..Len(Order) /\ Order[n] = Order[m]
        BY <2>1 DEF Loads
      <3>2. n = m /\ n \in Int /\ m \in Int
        BY <3>1, ModelAssumption
      <3>3. QED
        BY <3>2
    <2>4. Own(i)' /\ NewIsDirty(i)' /\ Collected(i)' /\ Started(i)'
      BY <1>1, <2>1, <2>2 DEF Own, NewIsDirty, Collected, Started, Each, Loads
    <2>5. QED
      BY <2>3, <2>4 DEF Each
  <1>6. CASE Save(i)
    <2>1. /\ attrs' = attrs /\ id' = id /\ touched' = touched /\ inserts' = inserts
          /\ pc[i] = "idle" /\ pc'[i] = "before"
          /\ pending'[i] = [n \in DirtyRecords(i) |-> attrs[i][n].value]
      BY <1>1, <1>6 DEF Save, history
    <2>2. Own(i)'
      BY <1>3, <2>1 DEF Own, Each, DirtyRecords
    <2>3. Started(i)' /\ NewIsDirty(i)'
      BY <1>3, <2>1 DEF Started, NewIsDirty, Each
    <2>4. QED
      BY <1>3, <1>6, <2>1, <2>2, <2>3, SaveCollects DEF Each
  <1>7. CASE Refused(i)
    <2>1. /\ attrs' = attrs /\ id' = id /\ touched' = touched /\ inserts' = inserts
          /\ pc[i] = "before" /\ pc'[i] = "idle" /\ DOMAIN pending'[i] = {}
      BY <1>1, <1>2, <1>7 DEF Refused, history
    <2>2. QED
      BY <1>3, <2>1 DEF Each, Started, Own, NewIsDirty, Collected
  <1>8. CASE Insert(i)
    <2>1. /\ attrs' = attrs /\ pending' = pending /\ touched' = touched
          /\ pc[i] = "before" /\ pc'[i] = "after" /\ id[i] = NoId
          /\ lastId' = lastId + 1 /\ id'[i] = lastId + 1 /\ inserts'[i] = inserts[i] + 1
      BY <1>1, <1>8 DEF Insert
    <2>2. id'[i] # NoId /\ inserts[i] = 0
      BY <1>1, <2>1 DEF Each, Started, NoId
    <2>3. QED
      BY <1>3, <2>1, <2>2 DEF Each, Started, Own, NewIsDirty, Collected
  <1>9. CASE Update(i) \/ UpdateFails(i)
    <2>1. /\ attrs' = attrs /\ pending' = pending /\ touched' = touched /\ inserts' = inserts
          /\ pc[i] = "before" /\ pc'[i] = "after" /\ id[i] # NoId /\ id' = id
      BY <1>1, <1>9 DEF Update, UpdateFails
    <2>2. QED
      BY <1>3, <2>1 DEF Each, Started, Own, NewIsDirty, Collected
  <1>10. CASE ClearFlags(i)
    <2>1. /\ Indices(i)' = Indices(i)
          /\ \A n \in Indices(i) :
                /\ NameOf(i, n)' = NameOf(i, n) /\ attrs'[i][n].value = attrs[i][n].value
                /\ attrs'[i][n].dirty = IF n \in DOMAIN pending[i] THEN FALSE ELSE attrs[i][n].dirty
      BY <1>10, FlagsCleared
    <2>2. /\ DOMAIN pending'[i] = {} /\ touched' = touched /\ inserts' = inserts
          /\ pc[i] = "after" /\ pc'[i] = "idle" /\ id' = id /\ id[i] # NoId
      BY <1>1, <1>2, <1>10 DEF ClearFlags, history, Each, Started
    <2>3. NullFirst(i)'
      BY <2>1 DEF Each, NullFirst, IsFirst
    <2>4. Own(i)'
      BY <2>1, <2>2 DEF Each, Own
    <2>5. Started(i)' /\ NewIsDirty(i)' /\ Collected(i)'
      BY <2>2 DEF Each, Started, NewIsDirty, Collected
    <2>6. QED
      BY <2>3, <2>4, <2>5 DEF Each
  <1>11. CASE Destroy(i)
    <2>1. /\ attrs' = attrs /\ pending' = pending /\ id' = id /\ touched' = touched
          /\ inserts' = inserts /\ pc' = pc
      BY <1>11 DEF Destroy
    <2>2. QED
      BY <2>1, SameEach DEF Same
  <1>12. QED
    BY <1>4, <1>5, <1>6, <1>7, <1>8, <1>9, <1>10, <1>11

-----------------------------------------------------------------------------
(* The row. *)

\* The row of a new instance, and what an update makes of one.
Inserted(i) == [a \in Attrs |-> IF a \in Columns(i) THEN Written(i, a) ELSE NoValue]
Updated(i)  == [a \in Attrs |-> IF a \in Columns(i) THEN Written(i, a) ELSE rows[id[i]][a]]

\* The rows that are written are rows, with every required value.
LEMMA RowsWritten ==
    ASSUME TypeOK, Numbered, NEW i \in Instances, Each(i)
    PROVE  /\ Insert(i) => /\ lastId + 1 \in Ids /\ rows[lastId + 1] = NoRow
                           /\ rows' = [rows EXCEPT ![lastId + 1] = Inserted(i)]
                           /\ Inserted(i) \in Rows /\ \A a \in Required : Inserted(i)[a] # NoValue
           /\ Update(i) => /\ id[i] \in Ids
                           /\ \/ rows[id[i]] = NoRow /\ rows' = rows
                              \/ /\ rows[id[i]] # NoRow /\ rows[id[i]] \in Rows
                                 /\ rows' = [rows EXCEPT ![id[i]] = Updated(i)]
                                 /\ Updated(i) \in Rows
                                 /\ \A a \in Required : rows[id[i]][a] # NoValue => Updated(i)[a] # NoValue
  <1>1. \A n \in DOMAIN pending[i] : pending[i][n] \in Loaded \cup {NoValue}
    BY DEF TypeOK
  <1>2. \A a \in Columns(i) : Written(i, a) \in Loaded \cup {NoValue}
    BY <1>1, WrittenIsCollected
  <1>3. pc[i] = "before" => \A a \in Required \cap Columns(i) : Written(i, a) # NoValue
    BY WrittenIsCollected DEF Each, Collected
  <1>4. Required \subseteq Attrs
    BY ModelAssumption
  <1>5. ASSUME Insert(i)
        PROVE  /\ lastId + 1 \in Ids /\ rows[lastId + 1] = NoRow
               /\ rows' = [rows EXCEPT ![lastId + 1] = Inserted(i)]
               /\ Inserted(i) \in Rows /\ \A a \in Required : Inserted(i)[a] # NoValue
    <2>1. lastId + 1 \in Ids /\ lastId + 1 > lastId
      BY <1>5, ModelAssumption DEF Insert, TypeOK, Ids
    <2>2. rows' = [rows EXCEPT ![lastId + 1] = Inserted(i)]
      BY <1>5 DEF Insert, Inserted
    <2>3. Required \subseteq Columns(i)
      BY <1>5 DEF Insert, Each, Collected, Columns
    <2>4. Inserted(i) \in Rows /\ \A a \in Required : Inserted(i)[a] # NoValue
      BY <1>2, <1>3, <1>4, <1>5, <2>3 DEF Inserted, Rows, Insert
    <2>5. QED
      BY <2>1, <2>2, <2>4 DEF Numbered
  <1>6. ASSUME Update(i), rows[id[i]] # NoRow
        PROVE  /\ rows[id[i]] \in Rows /\ rows' = [rows EXCEPT ![id[i]] = Updated(i)]
               /\ Updated(i) \in Rows
               /\ \A a \in Required : rows[id[i]][a] # NoValue => Updated(i)[a] # NoValue
    <2>1. rows[id[i]] \in Rows
      BY <1>6 DEF Update, TypeOK
    <2>2. rows' = [rows EXCEPT ![id[i]] = Updated(i)]
      BY <1>6 DEF Update, Updated
    <2>3. Updated(i) \in Rows
      BY <1>2, <2>1 DEF Updated, Rows
    <2>4. \A a \in Required : rows[id[i]][a] # NoValue => Updated(i)[a] # NoValue
      BY <1>3, <1>4, <1>6 DEF Updated, Update
    <2>5. QED
      BY <2>1, <2>2, <2>3, <2>4
  <1>7. Update(i) => id[i] \in Ids /\ (rows[id[i]] = NoRow => rows' = rows)
    BY DEF Update, TypeOK
  <1>8. QED
    BY <1>5, <1>6, <1>7

\* The instance that acts, and what is known of its row afterwards.
LEMMA StepAgrees ==
    ASSUME TypeOK, Numbered, NEW i \in Instances, Each(i), Agrees(i), i \notin strayed',
           \/ New(i) \/ Find(i) \/ Save(i) \/ Refused(i) \/ Insert(i) \/ Update(i)
           \/ UpdateFails(i) \/ ClearFlags(i) \/ Destroy(i)
    PROVE  Agrees(i)'
  <1>1. /\ id \in [Instances -> Ids \cup {NoId}] /\ NoId \notin Ids
        /\ rows \in [Ids -> Rows \cup {NoRow}] /\ NoRow \notin Rows
        /\ DOMAIN pending = Instances /\ DOMAIN pending[i] \subseteq Indices(i)
        /\ pc \in [Instances -> {"none", "idle", "before", "after", "crashed"}]
    BY ModelAssumption DEF TypeOK, Ids, NoId
  <1>2. \A n \in Indices(i) : n \in Nat /\ NameOf(i, n) \in Attrs
    BY RecordType DEF NameOf
  <1>3. ASSUME attrs' = attrs
        PROVE  /\ Indices(i)' = Indices(i) /\ \A n : NameOf(i, n)' = NameOf(i, n)
               /\ \A n : Newest(i, n)' <=> Newest(i, n)
               /\ LaterIsDirty(i)' /\ DirtyRecords(i)' = DirtyRecords(i)
    BY <1>3 DEF Agrees, LaterIsDirty, Indices, NameOf, Newest, DirtyRecords
  <1>4. CASE New(i) \/ Refused(i)
    <2>1. /\ attrs' = attrs /\ id' = id /\ rows' = rows /\ pc[i] # "after" /\ pc'[i] = "idle"
      BY <1>1, <1>4 DEF New, Refused
    <2>2. RowKnown(i)'
      BY <1>3, <2>1 DEF Agrees, RowKnown, Stored, Load
    <2>3. QED
      BY <1>3, <2>1, <2>2 DEF Agrees, InHand
  <1>5. CASE Find(i)
    <2>1. PICK k \in Ids : Loads(i, k)
      BY <1>5, FindLoads
    <2>2. rows' = rows /\ pc'[i] = "idle"
      BY <1>1, <1>5 DEF Find
    <2>3. LaterIsDirty(i)' /\ InHand(i)'
      BY <2>1, <2>2 DEF LaterIsDirty, InHand, Loads
    <2>4. RowKnown(i)'
      BY <2>1, <2>2 DEF RowKnown, Stored, Load, Loads
    <2>5. QED
      BY <2>3, <2>4 DEF Agrees
  <1>6. CASE Save(i)
    <2>1. /\ attrs' = attrs /\ id' = id /\ rows' = rows /\ pc[i] = "idle" /\ pc'[i] = "before"
          /\ pending'[i] = [n \in DirtyRecords(i) |-> attrs[i][n].value]
      BY <1>1, <1>6 DEF Save
    <2>2. RowKnown(i)'
      BY <1>3, <2>1 DEF Agrees, RowKnown, Stored, Load
    <2>3. InHand(i)'
      BY <1>3, <2>1 DEF InHand
    <2>4. QED
      BY <1>3, <2>1, <2>2, <2>3 DEF Agrees
  <1>7. ASSUME Insert(i) \/ Update(i)
        PROVE  /\ attrs' = attrs /\ pending' = pending /\ pc[i] = "before" /\ pc'[i] = "after"
               /\ DOMAIN pending[i] = DirtyRecords(i)
               /\ \A n \in DOMAIN pending[i] : pending[i][n] = attrs[i][n].value
               /\ \A n \in DOMAIN pending[i] : Written(i, NameOf(i, n)) = attrs[i][n].value
    <2>1. /\ attrs' = attrs /\ pending' = pending /\ pc[i] = "before" /\ pc'[i] = "after"
          /\ ~Repeated(i)
      BY <1>1, <1>7 DEF Insert, Update
    <2>2. DOMAIN pending[i] = DirtyRecords(i)
          /\ \A n \in DOMAIN pending[i] : pending[i][n] = attrs[i][n].value
      BY <2>1 DEF Agrees, InHand
    <2>3. ASSUME NEW n \in DOMAIN pending[i]
          PROVE  Written(i, NameOf(i, n)) = pending[i][n]
      <3>1. NameOf(i, n) \in Columns(i)
        BY DEF Columns
      <3>2. PICK m \in DOMAIN pending[i] :
               NameOf(i, m) = NameOf(i, n) /\ Written(i, NameOf(i, n)) = pending[i][m]
        BY <3>1, WrittenIsCollected
      <3>3. m = n
        BY <2>1, <3>2 DEF Repeated
      <3>4. QED
        BY <3>2, <3>3
    <2>4. QED
      BY <2>1, <2>2, <2>3
  <1>8. CASE Insert(i)
    <2>1. /\ lastId + 1 \in Ids /\ rows' = [rows EXCEPT ![lastId + 1] = Inserted(i)]
          /\ Inserted(i) \in Rows /\ id'[i] = lastId + 1 /\ id[i] = NoId
      <3>1. id'[i] = lastId + 1 /\ id[i] = NoId
        BY <1>1, <1>8 DEF Insert
      <3>2. QED
        BY <1>8, <3>1, RowsWritten
    <2>2. rows'[id'[i]] = Inserted(i)
      BY <1>1, <2>1
    <2>3. ASSUME NEW n \in Indices(i)
          PROVE  Inserted(i)[NameOf(i, n)] = attrs[i][n].value
      <3>1. n \in DOMAIN pending[i]
        BY <1>7, <1>8, <2>1 DEF Each, NewIsDirty, DirtyRecords
      <3>2. NameOf(i, n) \in Columns(i)
        BY <3>1 DEF Columns
      <3>3. QED
        BY <1>2, <1>7, <1>8, <3>1, <3>2 DEF Inserted
    <2>4. \A n \in Indices(i) : Stored(i, n)'
      BY <1>3, <1>7, <1>8, <2>2, <2>3 DEF Stored
    <2>5. RowKnown(i)'
      BY <1>1, <1>3, <1>7, <1>8, <2>1, <2>2, <2>4 DEF RowKnown
    <2>6. InHand(i)'
      BY <1>3, <1>7, <1>8 DEF InHand
    <2>7. QED
      BY <1>3, <1>7, <1>8, <2>5, <2>6 DEF Agrees
  <1>9. CASE Update(i)
    <2>1. id[i] # NoId /\ id' = id /\ rows[id[i]] # NoRow /\ id[i] \in Ids
      BY <1>1, <1>9 DEF Update, Agrees, RowKnown
    <2>2. rows' = [rows EXCEPT ![id[i]] = Updated(i)] /\ Updated(i) \in Rows
      BY <1>9, <2>1, RowsWritten
    <2>3. rows'[id'[i]] = Updated(i)
      BY <1>1, <2>1, <2>2
    <2>4. ASSUME NEW n \in Indices(i), Newest(i, n)
          PROVE  attrs[i][n].value \in {Updated(i)[NameOf(i, n)], Load(Updated(i)[NameOf(i, n)])}
      <3>1. CASE n \in DOMAIN pending[i]
        <4>1. NameOf(i, n) \in Columns(i)
          BY <3>1 DEF Columns
        <4>2. QED
          BY <1>2, <1>7, <1>9, <3>1, <4>1 DEF Updated
      <3>2. CASE n \notin DOMAIN pending[i]
        <4>1. ~attrs[i][n].dirty
          BY <1>7, <1>9, <3>2 DEF DirtyRecords
        <4>2. ASSUME NEW m \in DOMAIN pending[i], NameOf(i, m) = NameOf(i, n)
              PROVE  FALSE
          <5>1. m \in Indices(i) /\ attrs[i][m].dirty /\ m # n
            BY <1>1, <1>7, <1>9, <3>2 DEF DirtyRecords
          <5>2. m < n \/ m > n
            BY <1>2, <5>1
          <5>3. ~(m > n)
            BY <2>4, <4>2, <5>1 DEF Newest
          <5>4. ~(m < n)
            BY <4>1, <4>2, <5>1 DEF Agrees, LaterIsDirty
          <5>5. QED
            BY <5>2, <5>3, <5>4
        <4>3. Updated(i)[NameOf(i, n)] = rows[id[i]][NameOf(i, n)]
          BY <1>2, <4>2 DEF Updated, Columns
        <4>4. Stored(i, n)
          BY <2>1, <2>4, <4>1 DEF Agrees, RowKnown
        <4>5. QED
          BY <4>3, <4>4 DEF Stored
      <3>3. QED
        BY <3>1, <3>2
    <2>5. \A n \in Indices(i) : Newest(i, n) => Stored(i, n)'
      BY <1>3, <1>7, <1>9, <2>3, <2>4 DEF Stored, Load
    <2>6. RowKnown(i)'
      BY <1>1, <1>3, <1>7, <1>9, <2>1, <2>2, <2>3, <2>5 DEF RowKnown
    <2>7. InHand(i)'
      BY <1>3, <1>7, <1>9 DEF InHand
    <2>8. QED
      BY <1>3, <1>7, <1>9, <2>6, <2>7 DEF Agrees
  <1>10. CASE UpdateFails(i)
    BY <1>10 DEF UpdateFails
  <1>11. CASE ClearFlags(i)
    <2>1. /\ Indices(i)' = Indices(i)
          /\ \A n \in Indices(i) :
                /\ NameOf(i, n)' = NameOf(i, n) /\ attrs'[i][n].value = attrs[i][n].value
                /\ attrs'[i][n].dirty = IF n \in DOMAIN pending[i] THEN FALSE ELSE attrs[i][n].dirty
      BY <1>11, FlagsCleared
    <2>2. /\ pc[i] = "after" /\ pc'[i] = "idle" /\ id' = id /\ rows' = rows
          /\ DOMAIN pending[i] = DirtyRecords(i)
      BY <1>1, <1>11 DEF ClearFlags, Agrees, InHand
    <2>3. \A n \in Indices(i) : ~attrs'[i][n].dirty
      BY <2>1, <2>2 DEF DirtyRecords
    <2>4. LaterIsDirty(i)' /\ InHand(i)'
      BY <2>1, <2>2, <2>3 DEF LaterIsDirty, InHand
    <2>5. \A n \in Indices(i) : Newest(i, n)' => Newest(i, n)
      BY <2>1 DEF Newest
    <2>6. RowKnown(i)'
      <3> SUFFICES ASSUME id[i] # NoId, NEW n \in Indices(i), Newest(i, n)'
                   PROVE  Stored(i, n)'
        BY <2>1, <2>2 DEF Agrees, RowKnown
      <3>1. Stored(i, n)
        BY <2>2, <2>5 DEF Agrees, RowKnown
      <3>2. QED
        BY <2>1, <2>2, <3>1 DEF Stored, Load
    <2>7. QED
      BY <2>4, <2>6 DEF Agrees
  <1>12. CASE Destroy(i)
    BY <1>12 DEF Destroy
  <1>13. QED
    BY <1>4, <1>5, <1>6, <1>8, <1>9, <1>10, <1>11, <1>12

-----------------------------------------------------------------------------
(* The inductive invariant. *)

\* At first there is no instance.
LEMMA InitInv == Init => IInv
  <1> SUFFICES ASSUME Init PROVE IInv
    OBVIOUS
  <1>1. /\ id = [i \in Instances |-> NoId] /\ attrs = [i \in Instances |-> <<>>]
        /\ pc = [i \in Instances |-> "none"] /\ pending = [i \in Instances |-> <<>>]
        /\ touched = [i \in Instances |-> {}] /\ inserts = [i \in Instances |-> 0]
        /\ strayed = {} /\ sets = 0
    BY DEF Init
  <1>2. DOMAIN (<< >>) = {} /\ Len(<< >>) = 0 /\ << >> \in Seq(Records) /\ 1..0 = {}
    OBVIOUS
  <1>3. ASSUME NEW i \in Instances
        PROVE  /\ id[i] = NoId /\ attrs[i] = <<>> /\ pc[i] = "none" /\ pending[i] = <<>>
               /\ inserts[i] = 0 /\ Indices(i) = {}
    <2>1. /\ id[i] = NoId /\ attrs[i] = <<>> /\ pc[i] = "none" /\ pending[i] = <<>>
          /\ inserts[i] = 0
      BY <1>1
    <2>2. Indices(i) = {}
      BY <1>2, <2>1 DEF Indices
    <2>3. QED
      BY <2>1, <2>2
  <1>4. /\ lastId \in 0..MaxId /\ rows \in [Ids -> Rows \cup {NoRow}] /\ Numbered
        /\ \A k \in Ids : rows[k] # NoRow => \A a \in Required : rows[k][a] # NoValue
    <2>1. CASE lastId = 0 /\ rows = [k \in Ids |-> NoRow]
      BY <2>1, ModelAssumption DEF Numbered
    <2>2. CASE /\ lastId = 1
               /\ \E r \in [Attrs -> Values \cup {NoValue}] :
                    /\ \A a \in Required : r[a] # NoValue
                    /\ rows = [k \in Ids |-> IF k = 1 THEN r ELSE NoRow]
      <3>1. PICK r \in [Attrs -> Values \cup {NoValue}] :
               /\ \A a \in Required : r[a] # NoValue
               /\ rows = [k \in Ids |-> IF k = 1 THEN r ELSE NoRow]
        BY <2>2
      <3>2. r \in Rows
        BY DEF Rows, Loaded
      <3>3. lastId \in 0..MaxId /\ \A k \in Ids : k > lastId => k # 1
        BY <2>2, ModelAssumption DEF Ids
      <3>4. QED
        BY <3>1, <3>2, <3>3 DEF Numbered
    <2>3. QED
      BY <2>1, <2>2 DEF Init
  <1>5. TypeOK
    BY <1>1, <1>2, <1>3, <1>4, ModelAssumption DEF TypeOK
  <1>6. ASSUME NEW i \in Instances
        PROVE  Each(i) /\ Agrees(i)
    BY <1>3 DEF Each, Started, Own, NullFirst, NewIsDirty, Collected,
                Agrees, LaterIsDirty, InHand, RowKnown
  <1>7. QED
    BY <1>4, <1>5, <1>6 DEF IInv, RequiredStored

\* The variables keep their types.
LEMMA StepTypes ==
    ASSUME IInv, NEW i \in Instances,
           New(i) \/ Find(i) \/ Set(i) \/ SaveSteps(i) \/ Destroy(i)
    PROVE  TypeOK'
  <1>1. TypeOK /\ Numbered /\ Each(i)
    BY DEF IInv
  <1>2. /\ rows \in [Ids -> Rows \cup {NoRow}] /\ lastId \in 0..MaxId
        /\ id \in [Instances -> Ids \cup {NoId}] /\ NoId \notin Ids
        /\ attrs \in [Instances -> Seq(Records)] /\ DOMAIN pending = Instances
        /\ pc \in [Instances -> {"none", "idle", "before", "after", "crashed"}]
        /\ touched \in [Instances -> SUBSET Attrs] /\ inserts \in [Instances -> 0..MaxId]
        /\ strayed \subseteq Instances /\ sets \in 0..MaxSets
    BY <1>1, ModelAssumption DEF TypeOK, Ids, NoId
  <1> DEFINE Held(j) == /\ Len(attrs[j]) <= MaxRecords /\ DOMAIN pending[j] \subseteq Indices(j)
                        /\ \A k \in DOMAIN pending[j] : pending[j][k] \in Loaded \cup {NoValue}
                        /\ (pc[j] \notin {"before", "after"} => pending[j] = <<>>)
  <1>3. \A j \in Instances : Held(j)
    BY <1>1 DEF TypeOK
  <1>4. DOMAIN (<< >>) = {} /\ Len(<< >>) = 0 /\ << >> \in Seq(Records)
    OBVIOUS
  <1>5. ASSUME NEW j \in Instances, attrs'[j] = attrs[j], pending'[j] = pending[j],
               pc'[j] \in {"before", "after"} \/ pc'[j] = pc[j] \/ pc[j] = "none"
        PROVE  Held(j)'
    BY <1>3, <1>5 DEF Indices
  <1>6. CASE New(i)
    <2>1. \A j \in Instances : Held(j)'
      BY <1>2, <1>5, <1>6 DEF New
    <2>2. QED
      BY <1>2, <1>6, <2>1 DEF New, history, TypeOK
  <1>7. CASE Find(i)
    <2>1. PICK k \in Ids : Loads(i, k)
      BY <1>1, <1>7, FindLoads
    <2>2. /\ pc' = [pc EXCEPT ![i] = "idle"] /\ UNCHANGED <<rows, lastId, pending, history>>
          /\ pc[i] = "none"
      BY <1>7 DEF Find
    <2>3. attrs' \in [Instances -> Seq(Records)] /\ id' \in [Instances -> Ids \cup {NoId}]
      BY <1>2, <2>1 DEF Loads
    <2>4. pending'[i] = <<>> /\ Held(i)'
      BY <1>2, <1>3, <1>4, <2>1, <2>2 DEF Loads
    <2>5. \A j \in Instances \ {i} : Held(j)'
      BY <1>2, <1>5, <2>1, <2>2 DEF Loads
    <2>6. QED
      BY <1>2, <2>2, <2>3, <2>4, <2>5 DEF history, TypeOK
  <1>8. ASSUME Set(i) \/ CallbackSet(i)
        PROVE  TypeOK'
    <2>1. PICK a \in Attrs, v \in Values \cup {NoValue} :
             Assign(i, a, v) /\ touched' = [touched EXCEPT ![i] = @ \cup {a}]
      BY <1>8 DEF Set, CallbackSet
    <2>2. /\ UNCHANGED <<rows, lastId, id, pc, pending, inserts>>
          /\ strayed' \subseteq Instances /\ sets' \in 0..MaxSets
      <3>1. /\ UNCHANGED <<rows, lastId, id, pc, pending, inserts>>
            /\ strayed' = strayed \/ strayed' = strayed \cup {i}
            /\ sets < MaxSets /\ sets' = sets + 1
        BY <1>8 DEF Set, CallbackSet
      <3>2. sets' \in 0..MaxSets
        BY <1>2, <3>1, ModelAssumption
      <3>3. QED
        BY <1>2, <3>1, <3>2
    <2>3. /\ DOMAIN attrs' = Instances /\ \A j \in Instances \ {i} : attrs'[j] = attrs[j]
          /\ \E p \in Nat : Assigned(i, a, v, p)
      BY <1>1, <2>1, AssignWritesOne DEF Each, Loaded
    <2>4. /\ attrs'[i] \in Seq(Records) /\ Len(attrs'[i]) <= MaxRecords
          /\ \A n \in Indices(i) : n \in Indices(i)'
      BY <2>3 DEF Assigned
    <2>5. \A j \in Instances : attrs'[j] \in Seq(Records)
      BY <1>2, <2>3, <2>4
    <2>6. attrs' \in [Instances -> Seq(Records)]
      <3>1. attrs' = [j \in Instances |-> attrs'[j]]
        BY <1>2, <2>1, <2>3 DEF Assign
      <3>2. QED
        BY <2>5, <3>1
    <2>7. Held(i)'
      BY <1>3, <2>2, <2>4
    <2>8. \A j \in Instances \ {i} : Held(j)'
      BY <1>5, <2>2, <2>3
    <2>9. touched' \in [Instances -> SUBSET Attrs]
      BY <1>2, <2>1
    <2>10. QED
      BY <1>2, <2>2, <2>6, <2>7, <2>8, <2>9 DEF TypeOK
  <1>9. CASE Save(i)
    <2>1. /\ pending' = [pending EXCEPT ![i] = [n \in DirtyRecords(i) |-> attrs[i][n].value]]
          /\ pc' = [pc EXCEPT ![i] = "before"] /\ UNCHANGED <<rows, lastId, id, attrs, history>>
      BY <1>9 DEF Save
    <2>2. pending'[i] = [n \in DirtyRecords(i) |-> attrs[i][n].value] /\ DOMAIN pending' = Instances
      BY <1>2, <2>1
    <2>3. DirtyRecords(i) \subseteq Indices(i)
          /\ \A n \in DirtyRecords(i) : attrs[i][n].value \in Loaded \cup {NoValue}
      BY <1>1, RecordType DEF DirtyRecords
    <2>4. Held(i)'
      BY <1>2, <1>3, <2>1, <2>2, <2>3 DEF Indices
    <2>5. \A j \in Instances \ {i} : Held(j)'
      BY <1>2, <1>5, <2>1
    <2>6. QED
      BY <1>2, <2>1, <2>2, <2>4, <2>5 DEF history, TypeOK
  <1>10. CASE Refused(i)
    <2>1. /\ pending' = [pending EXCEPT ![i] = <<>>] /\ pc' = [pc EXCEPT ![i] = "idle"]
          /\ UNCHANGED <<rows, lastId, id, attrs, history>>
      BY <1>10 DEF Refused
    <2>2. Held(i)'
      BY <1>2, <1>3, <1>4, <2>1 DEF Indices
    <2>3. \A j \in Instances \ {i} : Held(j)'
      BY <1>2, <1>5, <2>1
    <2>4. QED
      BY <1>2, <2>1, <2>2, <2>3 DEF history, TypeOK
  <1>11. CASE Insert(i)
    <2>1. /\ lastId + 1 \in Ids /\ rows' = [rows EXCEPT ![lastId + 1] = Inserted(i)]
          /\ Inserted(i) \in Rows
      BY <1>1, <1>11, RowsWritten
    <2>2. /\ id' = [id EXCEPT ![i] = lastId + 1] /\ lastId' = lastId + 1
          /\ inserts' = [inserts EXCEPT ![i] = @ + 1] /\ pc' = [pc EXCEPT ![i] = "after"]
          /\ UNCHANGED <<attrs, pending, touched, strayed, sets>> /\ id[i] = NoId /\ pc[i] = "before"
      BY <1>11 DEF Insert
    <2>3. inserts[i] = 0
      BY <1>1, <1>2, <2>2 DEF Each, Started
    <2>4. inserts' \in [Instances -> 0..MaxId] /\ lastId' \in 0..MaxId
      BY <1>2, <2>1, <2>2, <2>3, ModelAssumption DEF Ids
    <2>5. \A j \in Instances : Held(j)'
      BY <1>2, <1>5, <2>2
    <2>6. QED
      BY <1>2, <2>1, <2>2, <2>4, <2>5 DEF TypeOK
  <1>12. CASE InsertCrashes(i)
    <2>1. \A j \in Instances : Held(j)'
      BY <1>3, <1>4, <1>12, ModelAssumption DEF InsertCrashes, Indices
    <2>2. QED
      BY <1>2, <1>4, <1>12, <2>1 DEF InsertCrashes, history, TypeOK
  <1>13. CASE Update(i) \/ UpdateFails(i)
    <2>1. rows' \in [Ids -> Rows \cup {NoRow}]
      <3>1. CASE Update(i)
        BY <1>1, <1>2, <3>1, RowsWritten
      <3>2. CASE UpdateFails(i)
        BY <1>2, <3>2 DEF UpdateFails
      <3>3. QED
        BY <1>13, <3>1, <3>2
    <2>2. /\ pc' = [pc EXCEPT ![i] = "after"] /\ strayed' \subseteq Instances
          /\ UNCHANGED <<lastId, id, attrs, pending, touched, inserts, sets>>
      BY <1>2, <1>13 DEF Update, UpdateFails, Outdated
    <2>3. \A j \in Instances : Held(j)'
      BY <1>2, <1>5, <2>2
    <2>4. QED
      BY <1>2, <2>1, <2>2, <2>3 DEF TypeOK
  <1>14. CASE ClearFlags(i)
    <2>1. /\ attrs' = [attrs EXCEPT ![i] = attrs'[i]]
          /\ attrs'[i] \in Seq(Records) /\ Len(attrs'[i]) = Len(attrs[i])
      BY <1>1, <1>14, FlagsCleared
    <2>2. /\ pending' = [pending EXCEPT ![i] = <<>>] /\ pc' = [pc EXCEPT ![i] = "idle"]
          /\ UNCHANGED <<rows, lastId, id, history>>
      BY <1>14 DEF ClearFlags
    <2>3. attrs' \in [Instances -> Seq(Records)] /\ \A j \in Instances \ {i} : attrs'[j] = attrs[j]
      BY <1>2, <2>1
    <2>4. Held(i)'
      BY <1>2, <1>3, <1>4, <2>1, <2>2
    <2>5. \A j \in Instances \ {i} : Held(j)'
      BY <1>2, <1>5, <2>2, <2>3
    <2>6. QED
      BY <1>2, <2>2, <2>3, <2>4, <2>5 DEF history, TypeOK
  <1>15. CASE Destroy(i)
    <2>1. /\ rows' = [rows EXCEPT ![id[i]] = NoRow] /\ strayed' \subseteq Instances
          /\ UNCHANGED <<lastId, id, attrs, pc, pending, touched, inserts, sets>>
      BY <1>2, <1>15 DEF Destroy
    <2>2. \A j \in Instances : Held(j)'
      BY <1>2, <1>5, <2>1
    <2>3. QED
      BY <1>2, <2>1, <2>2 DEF TypeOK
  <1>16. QED
    BY <1>6, <1>7, <1>8, <1>9, <1>10, <1>11, <1>12, <1>13, <1>14, <1>15 DEF SaveSteps

\* An instance other than the one that acts keeps its variables, and its row
\* unless the step strays it.
LEMMA OthersSame ==
    ASSUME IInv, NEW i \in Instances, NEW j \in Instances \ {i},
           \/ New(i) \/ Find(i) \/ Set(i) \/ CallbackSet(i) \/ Save(i) \/ Refused(i)
           \/ Insert(i) \/ Update(i) \/ UpdateFails(i) \/ ClearFlags(i) \/ Destroy(i)
    PROVE  /\ Same(j)
           /\ j \notin strayed' /\ id[j] # NoId => rows'[id[j]] = rows[id[j]]
  <1>1. /\ TypeOK /\ Numbered /\ Each(i)
        /\ rows \in [Ids -> Rows \cup {NoRow}] /\ lastId \in 0..MaxId
        /\ id \in [Instances -> Ids \cup {NoId}]
        /\ attrs \in [Instances -> Seq(Records)] /\ DOMAIN pending = Instances
        /\ pc \in [Instances -> {"none", "idle", "before", "after", "crashed"}]
        /\ touched \in [Instances -> SUBSET Attrs] /\ inserts \in [Instances -> 0..MaxId]
    BY DEF IInv, TypeOK
  <1>2. CASE New(i) \/ Find(i) \/ Save(i) \/ Refused(i) \/ ClearFlags(i)
    BY <1>1, <1>2 DEF New, Find, Save, Refused, ClearFlags, history, Same
  <1>3. CASE Set(i) \/ CallbackSet(i)
    <2>1. PICK a \in Attrs, v \in Values \cup {NoValue} :
             Assign(i, a, v) /\ touched' = [touched EXCEPT ![i] = @ \cup {a}]
      BY <1>3 DEF Set, CallbackSet
    <2>2. UNCHANGED <<rows, lastId, id, pc, pending, inserts>>
      BY <1>3 DEF Set, CallbackSet
    <2>3. attrs'[j] = attrs[j]
      BY <1>1, <2>1, AssignWritesOne DEF Each, Loaded
    <2>4. QED
      BY <1>1, <2>1, <2>2, <2>3 DEF Same
  <1>4. CASE Insert(i)
    <2>1. Same(j)
      BY <1>1, <1>4 DEF Insert, Same
    <2>2. strayed' = strayed
      BY <1>4 DEF Insert
    <2>3. /\ lastId + 1 \in Ids /\ rows[lastId + 1] = NoRow
          /\ rows' = [rows EXCEPT ![lastId + 1] = Inserted(i)]
      BY <1>1, <1>4, RowsWritten
    <2>4. (j \notin strayed /\ id[j] # NoId) => rows[id[j]] # NoRow
      BY DEF IInv, Agrees, RowKnown
    <2>5. QED
      BY <1>1, <2>1, <2>2, <2>3, <2>4
  <1>5. CASE Update(i) \/ UpdateFails(i)
    <2>1. Same(j)
      BY <1>1, <1>5 DEF Update, UpdateFails, Same
    <2>2. CASE Update(i)
      <3>1. id[i] = id[j] => j \in strayed'
        BY <2>2 DEF Update, Outdated
      <3>2. rows' = rows \/ rows' = [rows EXCEPT ![id[i]] = Updated(i)]
        BY <1>1, <2>2, RowsWritten
      <3>3. QED
        BY <1>1, <2>1, <3>1, <3>2
    <2>3. CASE UpdateFails(i)
      BY <2>1, <2>3 DEF UpdateFails
    <2>4. QED
      BY <1>5, <2>2, <2>3
  <1>6. CASE Destroy(i)
    BY <1>1, <1>6 DEF Destroy, Same
  <1>7. QED
    BY <1>2, <1>3, <1>4, <1>5, <1>6

\* The step of one instance keeps the invariant of all.
LEMMA ActInv ==
    ASSUME IInv, NEW i \in Instances,
           New(i) \/ Find(i) \/ Set(i) \/ SaveSteps(i) \/ Destroy(i)
    PROVE  IInv'
  <1>1. TypeOK'
    BY StepTypes
  <1>2. /\ TypeOK /\ Numbered /\ RequiredStored /\ Each(i)
        /\ rows \in [Ids -> Rows \cup {NoRow}] /\ lastId \in 0..MaxId
        /\ NoRow \notin Rows /\ MaxId \in Nat /\ NoId \notin Ids
    BY ModelAssumption DEF IInv, TypeOK, Ids, NoId
  <1>3. strayed \subseteq strayed'
    BY DEF New, Find, Set, SaveSteps, CallbackSet, Save, Refused, Insert, InsertCrashes, Update,
           UpdateFails, ClearFlags, Destroy, history
  <1>4. Numbered' /\ RequiredStored'
    <2>1. CASE UNCHANGED <<rows, lastId>>
      BY <1>2, <2>1 DEF Numbered, RequiredStored
    <2>2. CASE Insert(i)
      <3>1. /\ lastId + 1 \in Ids /\ rows' = [rows EXCEPT ![lastId + 1] = Inserted(i)]
            /\ \A a \in Required : Inserted(i)[a] # NoValue
        BY <1>2, <2>2, RowsWritten
      <3>2. lastId' = lastId + 1
        BY <2>2 DEF Insert
      <3>3. \A k \in Ids : k # lastId + 1 => rows'[k] = rows[k]
        BY <1>2, <3>1
      <3>4. Numbered'
        BY <1>2, <3>2, <3>3 DEF Numbered, Ids
      <3>5. RequiredStored'
        BY <1>2, <3>1, <3>3 DEF RequiredStored
      <3>6. QED
        BY <3>4, <3>5
    <2>3. CASE Update(i)
      <3>1. lastId' = lastId
        BY <2>3 DEF Update
      <3>2. CASE rows' = rows
        BY <2>1, <3>1, <3>2
      <3>3. CASE rows' # rows
        <4>1. /\ id[i] \in Ids /\ rows[id[i]] # NoRow
              /\ rows' = [rows EXCEPT ![id[i]] = Updated(i)]
              /\ \A a \in Required : rows[id[i]][a] # NoValue => Updated(i)[a] # NoValue
          BY <1>2, <2>3, <3>3, RowsWritten
        <4>2. \A k \in Ids : k # id[i] => rows'[k] = rows[k]
          BY <1>2, <4>1
        <4>3. Numbered'
          BY <1>2, <3>1, <4>1, <4>2 DEF Numbered
        <4>4. RequiredStored'
          BY <1>2, <4>1, <4>2 DEF RequiredStored
        <4>5. QED
          BY <4>3, <4>4
      <3>4. QED
        BY <3>2, <3>3
    <2>4. CASE Destroy(i)
      <3>1. id[i] \in Ids /\ rows' = [rows EXCEPT ![id[i]] = NoRow] /\ lastId' = lastId
        BY <1>2, <2>4 DEF Destroy, TypeOK
      <3>2. QED
        BY <1>2, <3>1 DEF Numbered, RequiredStored
    <2>5. QED
      BY <2>1, <2>2, <2>3, <2>4 DEF New, Find, Set, SaveSteps, CallbackSet, Save, Refused,
                                    InsertCrashes, UpdateFails, ClearFlags
  <1>5. CASE InsertCrashes(i)
    <2>1. DOMAIN (<< >>) = {} /\ Len(<< >>) = 0 /\ 1..0 = {}
      OBVIOUS
    <2>2. ASSUME NEW j \in Instances
          PROVE  /\ id'[j] = NoId /\ attrs'[j] = <<>> /\ pc'[j] = "crashed" /\ pending'[j] = <<>>
                 /\ inserts'[j] = inserts[j]
      BY <1>5 DEF InsertCrashes, history
    <2>3. \A j \in Instances : Indices(j)' = {}
      BY <2>1, <2>2 DEF Indices
    <2>4. ASSUME NEW j \in Instances
          PROVE  Each(j)' /\ Agrees(j)'
      <3>1. inserts[j] <= 1
        BY DEF IInv, Each, Started
      <3>2. Started(j)'
        BY <2>2, <3>1 DEF Started
      <3>3. QED
        BY <2>2, <2>3, <3>2 DEF Each, Own, NullFirst, NewIsDirty, Collected,
                                Agrees, LaterIsDirty, InHand, RowKnown
    <2>5. QED
      BY <1>1, <1>4, <2>4 DEF IInv
  <1>6. CASE Set(i) \/ CallbackSet(i)
    <2>1. PICK a \in Attrs, v \in Values \cup {NoValue} : SetOf(i, a, v)
      BY <1>6 DEF Set, CallbackSet, SetOf
    <2>2. v \in Loaded \cup {NoValue}
      BY DEF Loaded
    <2>3. Each(i)'
      BY <1>2, <1>6, <2>1, <2>2, SetEach DEF Set, CallbackSet
    <2>4. i \notin strayed' => Agrees(i)'
      <3> SUFFICES ASSUME i \notin strayed' PROVE Agrees(i)'
        OBVIOUS
      <3>1. pc[i] = "idle"
        BY <1>6 DEF Set, CallbackSet
      <3>2. Agrees(i)
        BY <1>3 DEF IInv
      <3>3. QED
        BY <1>2, <2>1, <2>2, <3>1, <3>2, SetAgrees
    <2>5. \A j \in Instances \ {i} : Each(j)' /\ (j \notin strayed' => Agrees(j)')
      BY <1>3, <1>6, OthersSame, SameEach, SameAgrees DEF IInv
    <2>6. QED
      BY <1>1, <1>4, <2>3, <2>4, <2>5 DEF IInv
  <1>7. CASE \/ New(i) \/ Find(i) \/ Save(i) \/ Refused(i) \/ Insert(i) \/ Update(i)
             \/ UpdateFails(i) \/ ClearFlags(i) \/ Destroy(i)
    <2>1. Each(i)'
      BY <1>2, <1>7, StepEach
    <2>2. i \notin strayed' => Agrees(i)'
      <3>1. i \notin strayed' => Agrees(i)
        BY <1>3 DEF IInv
      <3>2. QED
        BY <1>2, <1>7, <3>1, StepAgrees
    <2>3. \A j \in Instances \ {i} : Each(j)' /\ (j \notin strayed' => Agrees(j)')
      BY <1>3, <1>7, OthersSame, SameEach, SameAgrees DEF IInv
    <2>4. QED
      BY <1>1, <1>4, <2>1, <2>2, <2>3 DEF IInv
  <1>8. QED
    BY <1>5, <1>6, <1>7 DEF SaveSteps

\* The invariant is inductive.
LEMMA StepInv == IInv /\ [Next]_vars => IInv'
  <1> SUFFICES ASSUME IInv, [Next]_vars PROVE IInv'
    OBVIOUS
  <1>1. CASE Next
    BY <1>1, ActInv DEF Next
  <1>2. CASE UNCHANGED vars
    <2>1. /\ TypeOK' = TypeOK /\ Numbered' = Numbered /\ RequiredStored' = RequiredStored
          /\ strayed' = strayed /\ rows' = rows
      BY <1>2 DEF vars, history, TypeOK, Numbered, RequiredStored, Indices
    <2>2. \A j \in Instances : Same(j)
      BY <1>2 DEF vars, history, Same
    <2>3. \A j \in Instances : Each(j)' /\ (j \notin strayed' => Agrees(j)')
      BY <2>1, <2>2, SameEach, SameAgrees DEF IInv
    <2>4. QED
      BY <2>1, <2>3 DEF IInv
  <1>3. QED
    BY <1>1, <1>2

-----------------------------------------------------------------------------
(* Theorems. *)

\* The inductive invariant holds in every reachable state.
THEOREM ModelInvariant == Spec => []IInv
  BY InitInv, StepInv, PTL DEF Spec

\* The variables keep their types, and the lists of records their bound.
THEOREM ModelTypeOK == Spec => []TypeOK
  <1>1. IInv => TypeOK
    BY DEF IInv
  <1>2. QED
    BY <1>1, ModelInvariant, PTL

\* However often an instance is saved, it becomes one row.
THEOREM ModelInsertedOnce == Spec => []InsertedOnce
  <1>1. IInv => InsertedOnce
    BY DEF IInv, Each, Started, InsertedOnce
  <1>2. QED
    BY <1>1, ModelInvariant, PTL

\* No row lacks a required value.
THEOREM ModelRequiredStored == Spec => []RequiredStored
  <1>1. IInv => RequiredStored
    BY DEF IInv
  <1>2. QED
    BY <1>1, ModelInvariant, PTL

\* What the application set and no statement has written is still dirty.
THEOREM ModelUnsavedIsDirty == Spec => []UnsavedIsDirty
  <1>1. IInv => UnsavedIsDirty
    <2> SUFFICES ASSUME IInv, NEW i \in Instances \ strayed, id[i] # NoId, pc[i] = "idle"
                 PROVE  /\ rows[id[i]] # NoRow
                        /\ \A n \in Indices(i) :
                             \/ attrs[i][n].dirty
                             \/ \E m \in Indices(i) : m > n /\ NameOf(i, m) = NameOf(i, n)
                             \/ Stored(i, n)
      BY DEF UnsavedIsDirty, Stored
    <2>1. RowKnown(i)
      BY DEF IInv, Agrees
    <2>2. QED
      BY <2>1 DEF RowKnown, Newest
  <1>2. QED
    BY <1>1, ModelInvariant, PTL

\* A save changes no column that its own application did not set.
THEOREM ModelOnlyOwnColumns == Spec => OnlyOwnColumns
  <1> DEFINE OwnStep(k) ==
               rows[k] # NoRow /\ rows'[k] # NoRow /\ rows'[k] # rows[k] =>
                 \E i \in Instances :
                    /\ id[i] = k /\ pc[i] = "before" /\ pc'[i] = "after"
                    /\ \A a \in Attrs : rows'[k][a] # rows[k][a] => a \in touched[i]
  <1>1. ASSUME IInv, [Next]_vars, NEW k \in Ids
        PROVE  OwnStep(k)
    <2> SUFFICES ASSUME rows[k] # NoRow, rows'[k] # NoRow, rows'[k] # rows[k]
                 PROVE  \E i \in Instances :
                           /\ id[i] = k /\ pc[i] = "before" /\ pc'[i] = "after"
                           /\ \A a \in Attrs : rows'[k][a] # rows[k][a] => a \in touched[i]
      OBVIOUS
    <2>1. /\ TypeOK /\ Numbered /\ \A i \in Instances : Each(i)
          /\ rows \in [Ids -> Rows \cup {NoRow}]
          /\ pc \in [Instances -> {"none", "idle", "before", "after", "crashed"}]
      BY <1>1 DEF IInv, TypeOK
    <2>2. PICK i \in Instances : Insert(i) \/ Update(i) \/ Destroy(i)
      BY <1>1 DEF Next, New, Find, Set, SaveSteps, CallbackSet, Save, Refused, InsertCrashes,
                  UpdateFails, ClearFlags, vars
    <2>3. CASE Insert(i)
      <3>1. /\ lastId + 1 \in Ids /\ rows[lastId + 1] = NoRow
            /\ rows' = [rows EXCEPT ![lastId + 1] = Inserted(i)]
        BY <2>1, <2>3, RowsWritten
      <3>2. k # lastId + 1
        BY <3>1
      <3>3. QED
        BY <2>1, <3>1, <3>2
    <2>4. CASE Update(i)
      <3>1. /\ id[i] \in Ids /\ (rows' = rows \/ rows' = [rows EXCEPT ![id[i]] = Updated(i)])
        BY <2>1, <2>4, RowsWritten
      <3>2. id[i] = k /\ rows'[k] = Updated(i)
        BY <2>1, <3>1
      <3>3. pc[i] = "before" /\ pc'[i] = "after"
        BY <2>1, <2>4 DEF Update
      <3>4. \A a \in Attrs : Updated(i)[a] # rows[k][a] => a \in Columns(i)
        BY <3>2 DEF Updated
      <3>5. Columns(i) \subseteq touched[i]
        BY <2>1 DEF Each, Own, Columns, TypeOK
      <3>6. QED
        BY <3>2, <3>3, <3>4, <3>5
    <2>5. CASE Destroy(i)
      BY <2>1, <2>5 DEF Destroy
    <2>6. QED
      BY <2>2, <2>3, <2>4, <2>5
  <1>2. IInv /\ [Next]_vars => [\A k \in Ids : OwnStep(k)]_vars
    BY <1>1
  <1>3. QED
    BY <1>2, ModelInvariant, PTL DEF Spec, OnlyOwnColumns

=============================================================================
