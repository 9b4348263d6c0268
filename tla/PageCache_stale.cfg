SPECIFICATION CacheSpec
CONSTANTS
    Files = {f1}
    PageIdx = {0}
    Stripes = {0}
    LockIndex <- OneStripeIndex
    Readers = {r1}
    Fillers = {w1}
    Reaper = reaper
    Restorer = restorer
    NoTask = NoTask
    NoPage = NoPage
    FillMode = "Async"
    Capacity = 1
    ReapQueueCap = 1
    TtlEnabled = FALSE
    StoreFaults = FALSE
    MaxVersion = 2
    MaxCrashes = 0
    Length = 5
    BlockSize = 3
    ChunkSize = 2
    MaxBuf = 2
    Threshold = 3
    BufferMessages = 2
    Window = 1
    AckBytes = 3
    AckChunks = 2
    AckCap = 1
    MaxFaults = 2
PROPERTY NeverServedStale
