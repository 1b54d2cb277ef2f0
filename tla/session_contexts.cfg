CONSTANTS
    Versions = {v1}
    Ctxs = {c1, c2}
    Initial = Initial
    NoCtx = NoCtx
    NoSignal = NoSignal
    Reliable = FALSE
    HasSignalStore = TRUE
    CatchesErrors = TRUE
    ReusesSession = TRUE
SPECIFICATION Spec
CHECK_DEADLOCK FALSE
INVARIANTS SignalReflectsLastAudit RefusedUnsignalled
PROPERTIES RefusedStaysOut
