CONSTANTS
    a = a
    b = b
    Null = Null
    Conns = {w1, w2}
    Signals = {a, b}
    Results = {q}
    Pairs <- SomePairs
    Payloads = {w}
    Engines <- ThreeEngines
    MaxCalls = 2
SPECIFICATION HFairSpec
CHECK_DEADLOCK FALSE
INVARIANTS TypeOK HoldersGoOn DeleteWalksAll
PROPERTIES OnlyCalledOrSpoiled WaitsEnd ImplementsStoreUnspoiled
