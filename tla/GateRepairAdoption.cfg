SPECIFICATION Spec
CONSTANTS
    standards = standards
    spec = spec
    Axes = {standards}
    MaxRepairs = 2
    MaxComments = 3
    Faults = {}
    MaxFaults = 0
    MaxCrashes = 2
INVARIANT
    FinishedRepairIsAdopted
CHECK_DEADLOCK FALSE
