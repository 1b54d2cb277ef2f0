CONSTANTS
    t = t
    a = a
    ra = ra
    x = x
    xx = xx
    id = id
    amount = amount
    NullValue = NullValue
    Nothing = Nothing
    NotGiven = NotGiven
    Names <- AllNames
    LastPart <- LastParts
    Statements <- SomeStatements
    Scripts <- SomeScripts
    Table = t
    Upstreams <- UpstreamTables
    Declarations <- SomeDeclarations
    Columns <- TheColumns
    Values <- TheValues
    Setups <- SomeSetups
    Data <- SomeData
    MaxTries = 3
SPECIFICATION MCSpec
CHECK_DEADLOCK FALSE
INVARIANTS TypeOK SourcesAreReads GatedBySignals SuccessTellsTruth SignalMatchesTable TableWasChecked
PROPERTIES GroupStarts
