SPECIFICATION Spec
CONSTANTS
    SchemaChanges = {"createDb", "dropDb", "createColl", "dropColl"}
    AtomicTruncate = TRUE
    TornWrites = TRUE
    MaxOps = 2
    MaxSchemaChanges = 2
    MaxFailures = 0
    MaxRestarts = 1
INVARIANTS
    Restartable
CHECK_DEADLOCK FALSE
