SPECIFICATION SuiteSpec
CONSTANTS
    Workers = {w1, w2, w3}
    WriteTypes = {"MUST_CACHE", "CACHE_THROUGH", "THROUGH", "ASYNC_THROUGH"}
    BlockSize = 3
    ChunkSize = 2
    Replicas = 3
    DurableMin = 2
    IgnoreUnknown = TRUE
    FlushEnabled = TRUE
    MaxBytes = 7
    FileLength = 7
    ReadBlockSize = 3
    PageSize = 2
    Contexts = {c1}
    ReadWorkers = {r1, r2}
    Gap = 1
    ReadMaxBytes = 3
    RangeLists <- InFile
    MaxVersion = 2
    MaxFaults = 2
    AsyncTasks = {"t1", "t2"}
    SyncThreads = {"s1"}
    PyFileLength = 4
    PREFETCH_HINT = 2
    MaxSize = 3
    MaxReads = 3
    MaxFailed = 1
    Tasks = {"t1", "t2"}
    MaxData = 3
    MaxBroken = 1
    Clients = {"c1", "c2"}
    Forked = {"c2"}
    BATCH_CONCURRENCY_LIMIT = 2
    RESOURCE_BATCH_CONCURRENCY_LIMIT = 2
    MaxPaths = 3
    MaxCalls = 2
    Nodes = {"n1", "n2", "n3"}
    Counts = {0, 2}
    Stocks <- SomeStocks
    min_remain_bytes = 2
    min_remain_tenths = 2
    cache_tenths = 1
    Sequence = {0, 1}
    MaxRefused = 2
    Data <- SomeBytes
    MaxWritten = 3
SYMMETRY WorkerSymmetry
INVARIANTS CompletedWhole    BlocksWritten
PROPERTIES  EndedOnce
