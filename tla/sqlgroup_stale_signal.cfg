CONSTANTS
    upstream = upstream
    downstream = downstream
    c1 = c1
    c2 = c2
    r1 = r1
    r2 = r2
    NotGiven = NotGiven
    Tables <- Alone
    Runs = {r1, r2}
    RunsOf <- AloneRuns
    Declared <- AloneDeclared
    Lineage <- AloneLineage
    CheckNames = {c1}
    Checks <- AloneChecks
    OnFailure <- AloneOnFailure
    MaxTries = 1
    Overlap = FALSE
SPECIFICATION Spec
CHECK_DEADLOCK FALSE
INVARIANTS FailedChecksNoSignal
