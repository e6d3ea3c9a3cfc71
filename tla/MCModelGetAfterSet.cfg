SPECIFICATION Spec
CONSTANTS
  i1 = i1
  i2 = i2
  name = name
  email = email
  v = v
  Instances <- MCInstances
  Attrs <- MCAttrs
  Order <- MCOrder
  Required = {name}
  Values <- MCValues
  Empty = Empty
  NoValue = NoValue
  NoRow = NoRow
  MaxId = 2
  MaxRecords = 3
  MaxSets = 5
PROPERTIES
  GetReturnsWhatWasSet
