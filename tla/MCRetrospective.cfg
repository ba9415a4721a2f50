\* Two episodes, one unit of a stage, one failure of the file system, two crashes anywhere.
SPECIFICATION Spec
CONSTANTS
    MaxEpisodes = 2
    MaxWork = 1
    MaxFaults = 1
    MaxCrashes = 2
INVARIANTS
    TypeOK
    OneVerdict
    SealsHold
PROPERTIES
    SealedNeverChanges
    ImplementsSoleAnalysis
    VerdictReached
CHECK_DEADLOCK FALSE
