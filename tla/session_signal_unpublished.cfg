CONSTANTS
    Versions = {v1}
    Ctxs = {c1}
    Initial = Initial
    NoCtx = NoCtx
    NoSignal = NoSignal
    Reliable = FALSE
    HasSignalStore = TRUE
    CatchesErrors = FALSE
    ReusesSession = FALSE
SPECIFICATION Spec
CHECK_DEADLOCK FALSE
INVARIANTS FinishedSignalIsPublished
