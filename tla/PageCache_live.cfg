SPECIFICATION SuiteSpec
CONSTANTS
    Files = {f1}
    PageIdx = {0, 1}
    Stripes = {0}
    LockIndex <- OneStripeIndex
    Readers = {r1}
    Fillers = {}
    Reaper = reaper
    Restorer = restorer
    NoTask = NoTask
    NoPage = NoPage
    FillMode = "Sync"
    Capacity = 1
    ReapQueueCap = 1
    TtlEnabled = TRUE
    StoreFaults = FALSE
    MaxVersion = 2
    MaxCrashes = 0
    Length = 5
    BlockSize = 3
    ChunkSize = 2
    MaxBuf = 2
    Threshold = 3
    BufferMessages = 2
    Window = 1
    AckBytes = 3
    AckChunks = 2
    AckCap = 1
    MaxFaults = 2
PROPERTIES   EvictedReclaimed CallsReturn
