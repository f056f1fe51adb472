SPECIFICATION Spec
CONSTANTS
    SchemaChanges = {"createDb", "dropDb", "createColl", "dropColl"}
    AtomicTruncate = TRUE
    TornWrites = FALSE
    MaxOps = 2
    MaxSchemaChanges = 2
    MaxFailures = 1
    MaxRestarts = 0
INVARIANTS
    TypeOK
    QueuesLeadToMemory
    
CHECK_DEADLOCK FALSE
