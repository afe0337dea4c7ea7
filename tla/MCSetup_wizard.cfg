SPECIFICATION FairSpec
CONSTANTS
    Page = {a, b}
    Run = {r1, r2}
    Calendar = {full, empty}
    Full = {full}
    None = None
    Allowed = {"fail", "cut", "crash"}
    QueueBound = 2
    MaxForms = 3
INVARIANTS GateAfterCommit OneImport
PROPERTIES CompleteImported OwnTasksSafe WatchEnds CompleteOpens
CHECK_DEADLOCK FALSE
