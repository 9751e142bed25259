\* One log of three certificates and two tail workers; two searchers of a paged
\* source; every certificate of at most two SCTs over logs of five leaves; three
\* uploads.
SPECIFICATION SourcesSpec
CONSTANTS
    zone = zone
    child = child
    Log = {l1}
    Worker = {w1, w2}
    Seed = {zone, child}
    Covers <- MCCovers
    Depth <- MCDepth
    MaxTree = 3
    CTTailBatch = 2
    CTTileWidth = 2
    MaxEntriesPerPoll = 2
    MaxAdmittedNames = 4
    MaxAttempts = 2
    MaxFaults = 1
    MaxActs = 2
    Searchers = {s1, s2}
    InScope = {1, 2, 3}
    Wild = {2}
    Issued = 3
    PageRows = 2
    Paged = TRUE
    MaxCTPages = 3
    NameCap = 2
    SlotSpacing = 2
    WindowSize = 2
    SearchAttempts = 2
    MaxSearches = 2
    MaxSecond = 6
    MaxLeaves = 5
    Tile = 4
    SCTKinds <- MCSCTKinds
    Files <- MCFiles
    Scopes <- MCScopes
    Absolute <- MCAbsolute
    MaxSupplies = 3
    MaxReads = 3
    Interval = 2
    MaxDay = 3
INVARIANTS NothingLost SearchHonest VerdictHonest 
PROPERTY CatchesUp
CHECK_DEADLOCK FALSE
