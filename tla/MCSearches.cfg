SPECIFICATION ToolSpec
CONSTANTS
    Jobs <- MCJobs
    MaxFiles = 2
    MaxTargets = 4
    Wanted = 1
    ImagePages = 3
    EntrySize = 4
    DWord = 32
    Block = 3
    ModCount = 2
    DataBlocks = 2
    RecordSize = 2
    HeaderSize = 3
    Searched <- MCSearched
    Grid = 1
    MaxDepth = 2
    NumCmp = 2
    MaxSize = 6
    MarkSize = 1
    MarkData = 1
    XorSize = 3
    Chunks = 2
    CountMod = 3
    ExtensionsMap <- FormatsOf
    SignBase = {1, 2}
CHECK_DEADLOCK FALSE
INVARIANT PlacesAreNoted
INVARIANT ChainsFollow
INVARIANT VerdictsHold
INVARIANT PagesToTheirTargets
INVARIANT LastClaimHolds
INVARIANT RepairsAreRight
