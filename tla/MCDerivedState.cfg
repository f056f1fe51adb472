SPECIFICATION Spec
CONSTANTS
    MaxRid = 3
    Values = {1, 2}
    Shards = {"s1", "s2"}
    Scenarios <- MCScenarios
    MaxWrites = 3
    Vectors = {1, 2}
    Cap = 2
INVARIANTS
    TypeOK
    
    
    AggregatesMatchWrites
    ScopesMatchRows
    VectorSearchesMatchWrites
    PagesAreWhole
    PartialsAddUp
    PlansTakeQueriedRows
PROPERTIES
    CatchesUp
CHECK_DEADLOCK FALSE
