\* No crash at all: a start that reports a failed launch, its late worker, a supersession.
SPECIFICATION Spec
CONSTANTS
    Runs = {r1}
    Commands = {c1}
    Alerts = {w1}
    Reasons = {x1}
    r1 = r1
    r2 = r2
    c1 = c1
    w1 = w1
    x1 = x1
    NoRun = NoRun
    Nobody = Nobody
    Blank = Blank
    MaxRecords = 7
    MaxCrashes = 0
INVARIANTS SupersessionIsLastRecord
CHECK_DEADLOCK FALSE
