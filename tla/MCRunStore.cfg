\* Two Runs (a Run and its successor), one operator command line, one crash: a start, a
\* resume or a supersession cut off at any write, the late worker of the same Run, and
\* whatever command comes next.
SPECIFICATION Spec
CONSTANTS
    Runs = {r1, r2}
    Commands = {c1}
    Alerts = {w1}
    Reasons = {x1}
    r1 = r1
    r2 = r2
    c1 = c1
    w1 = w1
    x1 = x1
    NoRun = NoRun
    Nobody = Nobody
    Blank = Blank
    MaxRecords = 6
    MaxCrashes = 1
INVARIANTS TypeOK OneActiveRun DurableFilesAgree
PROPERTIES HistoryAppendOnly ConfirmedLaunchNotRepeated ImplementsActiveRun
SYMMETRY Symmetric
CHECK_DEADLOCK FALSE
