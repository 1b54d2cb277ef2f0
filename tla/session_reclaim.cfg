CONSTANTS
    Versions = {v1, v2}
    Ctxs = {c1}
    Initial = Initial
    NoCtx = NoCtx
    NoSignal = NoSignal
    Reliable = TRUE
    HasSignalStore = FALSE
    CatchesErrors = FALSE
    ReusesSession = FALSE
SPECIFICATION FairSpec
CHECK_DEADLOCK FALSE
INVARIANTS NoOrphan
PROPERTIES StagingReclaimed
