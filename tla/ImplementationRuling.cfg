SPECIFICATION Spec
CONSTANTS
    Faults = {}
    MaxFaults = 0
    MaxCrashes = 2
INVARIANT RulingIsReproducible
CHECK_DEADLOCK FALSE
