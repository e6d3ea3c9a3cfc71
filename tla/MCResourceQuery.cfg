SPECIFICATION Spec
CONSTANTS
    Types <- MCTypes
    Relations <- MCRelations
    Attributes <- MCAttributes
    Like <- MCLike
    Stored <- MCStored
    Written <- MCWritten
    Requests <- MCRequests
    IntLimit = 8
    MaxWrites = 1
    MaxFailures = 1
INVARIANTS
    TypeOK
    FullLinkage
    IncludesAreTheLinked
    FiltersReachTheirType
    StatsRangeOverFiltered
    FieldsAsAsked
    
\* A request ends.
CHECK_DEADLOCK FALSE
