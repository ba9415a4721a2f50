SPECIFICATION Spec
CONSTANTS
    Faults = {"tracker", "git", "agent", "publication", "unit", "others"}
    MaxFaults = 2
    MaxCrashes = 2
INVARIANTS
    TypeOK
    EffectsCoverTheWorld
    RecordTellsEvidence
    PreflightAccepts
PROPERTIES
    AttemptsSpentOnce
    OthersKept
    Recovers
CHECK_DEADLOCK FALSE
