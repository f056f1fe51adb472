SPECIFICATION Spec
CONSTANTS
    MaxCounter = 3
    Writers = {1, 2}
INVARIANTS
    TypeOK
    TombstoneCoversPut
PROPERTIES
    ImplementsRegister
CHECK_DEADLOCK FALSE
