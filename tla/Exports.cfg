CONSTANTS
    Values <- MCValueSet
    Stored <- MCStored
    Bits <- MCBits
    Precision = 6
    PerSecond <- MCPerSecond
    UpToNul <- MCUpToNul
    Edges <- MCEdges
    MaxRows = 3
    Chunks <- MCChunks
    Adaptive = 99
    Cells = 6
    MaxCalls = 3
    Results <- MCResults
    Schema <- MCSchema
    Schemas <- MCSchemas
    Indexes <- MCIndexes
    MaxOffset = 3
    MaxRequests = 2
    EdgeTypes <- MCEdgeTypes
    MaxNodes = 3
    MaxRels = 2
    BatchSize = 2
    MaxStoreCalls = 3
    Workers = {w1, w2}
    Frames <- MCFrames
    Skips = {0, 2, 9}
    Limits = {1, 3, 99}
    Maximum = 99
    MorselSize = 3
    VectorSize = 2
    MaxRuns = 2
    Threads = {t1, t2}
    Parents <- MCParents
    TopLevel = "top"
    MaxFailures = 1
SPECIFICATION ExportsSpec
CHECK_DEADLOCK FALSE
INVARIANTS
    TypeOK
    NoLeaks
    
    
    GraphsComplete
    StoresAnswerTruly
    ThreadsShareWork
