SPECIFICATION Spec
CONSTANTS
    Bound = 3
    Rounds = 2
INVARIANTS
    TypeOK
    NothingOutlives
    ReportedExitIsReal
PROPERTIES
    CallEnds
CHECK_DEADLOCK FALSE
