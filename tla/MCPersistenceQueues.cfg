SPECIFICATION FairSpec
CONSTANTS
    SchemaChanges = {"createDb", "dropDb", "createColl", "dropColl"}
    AtomicTruncate = TRUE
    TornWrites = FALSE
    MaxOps = 2
    MaxSchemaChanges = 2
    MaxFailures = 0
    MaxRestarts = 1
INVARIANTS
    NothingForgotten
    QueuesLeadToMemory
PROPERTIES
    Drains
CHECK_DEADLOCK FALSE
