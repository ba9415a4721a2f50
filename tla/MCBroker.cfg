SPECIFICATION Spec
CONSTANTS
    MaxTries = 3
    MaxFaults = 3
INVARIANTS
    TypeOK
    FailsClosed
PROPERTIES
    OrphanRemoved
CHECK_DEADLOCK FALSE
