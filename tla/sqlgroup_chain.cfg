CONSTANTS
    upstream = upstream
    downstream = downstream
    c1 = c1
    c2 = c2
    r1 = r1
    r2 = r2
    NotGiven = NotGiven
    Tables <- Chain
    Runs = {r1, r2}
    RunsOf <- ChainRuns
    Declared <- ChainDeclared
    Lineage <- ChainLineage
    CheckNames = {c1, c2}
    Checks <- ChainChecks
    OnFailure <- ChainOnFailure
    MaxTries = 2
    Overlap = FALSE
SPECIFICATION Spec
CHECK_DEADLOCK FALSE
INVARIANTS TypeOK NothingTainted
PROPERTIES EmissionEarned PassingRunsSignal
