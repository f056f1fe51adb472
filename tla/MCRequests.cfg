SPECIFICATION Spec
CONSTANTS
    a = a
    b = b
    Nodes = {1, 2, 3}
    Ids = {a, b}
    ShardOf <- MCShardOf
    Owners <- MCOwners
    Scenarios <- MCScenarios
    MaxFaults = 1
INVARIANTS
    TypeOK
    AnsweredIsDurable
    ReportedIsSaved
    NotStartedMeansNoEffect
    
    DroppedEverywhere
    FoundUnlessUnanswered
PROPERTIES
    
    EveryRequestEnds
CHECK_DEADLOCK FALSE
