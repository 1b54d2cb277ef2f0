CONSTANTS
    Versions = {v1, v2}
    Initial = Initial
    NoFile = NoFile
SPECIFICATION FairSpec
CHECK_DEADLOCK FALSE
INVARIANTS StagedDataKept PublishedWhole
PROPERTIES OrphansReclaimed RenamesKeepContract
