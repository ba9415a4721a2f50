SPECIFICATION Spec
CONSTANTS
    standards = standards
    spec = spec
    Axes = {standards, spec}
    MaxRepairs = 2
    MaxComments = 3
    Faults = {"publication", "validation", "comment", "agent", "push", "foreign"}
    MaxFaults = 2
    MaxCrashes = 2
INVARIANTS
    TypeOK
    PullRequestIsExplained
    PreflightAccepts
PROPERTIES
    SlotsSpentOnce
    ReviewedIsApproved
    ForeignHeadKept
    CommandEnds
CHECK_DEADLOCK FALSE
