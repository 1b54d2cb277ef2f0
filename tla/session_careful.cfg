CONSTANTS
    Versions = {v1, v2}
    Ctxs = {c1}
    Initial = Initial
    NoCtx = NoCtx
    NoSignal = NoSignal
    Reliable = FALSE
    HasSignalStore = TRUE
    CatchesErrors = FALSE
    ReusesSession = FALSE
SPECIFICATION Spec
SYMMETRY Symmetry
CHECK_DEADLOCK FALSE
INVARIANTS TypeOK LiveWasChecked
PROPERTIES ImplementsPromotion
