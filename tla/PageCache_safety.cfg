SPECIFICATION SuiteSpec
CONSTANTS
    Files = {f1}
    PageIdx = {0, 1}
    Stripes = {0, 1}
    LockIndex <- PageStripeIndex
    Readers = {r1}
    Fillers = {w1}
    Reaper = reaper
    Restorer = restorer
    NoTask = NoTask
    NoPage = NoPage
    FillMode = "Async"
    Capacity = 1
    ReapQueueCap = 1
    TtlEnabled = FALSE
    StoreFaults = TRUE
    MaxVersion = 2
    MaxCrashes = 1
    Stores = {1}
    Pages = {1}
    RingCallers = {t1, t2}
    Writers = {t1}
    MaxFd = 5
    Threads = 1
    QueueDepth = 1
    PageLen = 2
    PreadModes = {TRUE, FALSE}
    ShortWrites = TRUE
    MaxPuts = 2
    MaxCalls = 4
    MaxEvents = 1
    TimeoutSteps = {"dir", "open", "read", "hot", "tmp", "unlink"}
INVARIANTS ResidentBacked  StoreSound
PROPERTIES ReadStable KeepsContract
