SPECIFICATION SuiteSpec
CONSTANTS
    Dir = d
    Files = {f, g}
    Tasks = {t1}
    Capacity = 2
    Ttl = 1
    MaxTime = 2
    MaxRev = 3
    Hosts = {"h1", "h2"}
    PageCache = TRUE
    MetaCache = TRUE
    Uring = FALSE
    Pushgateway = TRUE
    Workers = {"w1", "w2"}
    BlockSize = 2
    MaxLength = 3
    MaxSteps = 2
    MaxFaults = 1
    BlockBytes = 2
    MaxBytes = 3
    MaxAsk = 2
    MaxExpired = 2
    MaxQueries = 2
    Sizes = {0, 8}
    MaxItems = 2
    MaxCalls = 2
    MaxText = 4
    FileIds = {7, 12, 31}
    SeqBits = 2
    IdBits = 5
SYMMETRY FileTaskSymmetry
INVARIANTS SeesOwnChanges  ReadsTheBlock 
 
