SPECIFICATION Spec
CONSTANTS
    SchemaChanges = {}
    AtomicTruncate = TRUE
    TornWrites = FALSE
    MaxOps = 2
    MaxSchemaChanges = 2
    MaxFailures = 0
    MaxRestarts = 2
INVARIANTS
    AckedSurvives
CHECK_DEADLOCK FALSE
