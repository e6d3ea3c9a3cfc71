SPECIFICATION Spec
CONSTANTS
  x = x
  y = y
  Columns = {"id"}
  Values <- MCValues
  Clauses = {"limit", "group"}
  MaxWhere = 2
  MaxHaving = 1
  MaxMarks = 2
  MaxNames = 1
  MaxStatements = 2
SYMMETRY Sym
INVARIANTS
  BoundToOwnValue
  AggregatesDoNotStay
  ConditionsFreedOnce
\* A request ends.
CHECK_DEADLOCK FALSE
