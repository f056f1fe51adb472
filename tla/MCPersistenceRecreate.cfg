SPECIFICATION Spec
CONSTANTS
    SchemaChanges = {"createDb", "dropDb", "createColl", "dropColl"}
    AtomicTruncate = TRUE
    TornWrites = FALSE
    MaxOps = 2
    MaxSchemaChanges = 2
    MaxFailures = 0
    MaxRestarts = 0
INVARIANTS
    RemovedStaysRemoved
CHECK_DEADLOCK FALSE
