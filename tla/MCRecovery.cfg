SPECIFICATION Spec
CONSTANTS
    Nodes = {"A", "B"}
    Ids = {"a", "b"}
    Generations <- MCGenerations
    DefaultShard = "default"
    Route <- MCRoute
    Plans <- MCPlans
INVARIANTS
    TypeOK
    FlushedSurvives
    
PROPERTIES
    SourceStays
    
CHECK_DEADLOCK FALSE
