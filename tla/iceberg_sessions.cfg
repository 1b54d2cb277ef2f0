CONSTANTS
    Versions = {v1, v2, v3}
    Initial = Initial
    Reliable = FALSE
SPECIFICATION Spec
SYMMETRY Symmetry
CHECK_DEADLOCK FALSE
INVARIANTS OnlyPublishedLive
PROPERTIES OnlyConcurrentLost ImplementsBackend
