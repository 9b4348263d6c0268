SPECIFICATION SuiteSpec
CONSTANTS
    Callers = {c1, c2}
    N = 2
    MaxRounds = 2
    MaxFailovers = 1
    Closers = {"c1", "c2"}
    MaxCount = 1
    MaxChanges = 1
    MaxFaults = 2
    MAX_RPC_RETRIES = 2
    Askers = {"task", "op"}
    Task = "task"
    MaxEdits = 2
    Bytes = 4
    ChunkBytes = 2
    prefetch_window = 1
    buffer_messages = 1
    ack_interval_bytes = 3
    ack_interval_chunks = 2
    RequestCap = 1
    MaxEmpty = 1
    MaxTrouble = 1
    Workers = {1, 2, 3}
    Host <- TwoHosts
    LocalNames = {"localhost"}
    Interfaces = {"here"}
    Points = 4
    VNodes <- Ring
    Targets <- Falls
    Lists <- SomeLists
    Locations <- SomeLocations
    Count = 2
    CheckCount = 1
    Replicas = 2
    MinReplicas = 2
    Readers = {r1}
    Marked = {"a1", "a2", "a3"}
    Shard <- TwoShards
    Users = {"u1", "u2"}
    Wrap = 8
    Threads = {"t1", "t2"}
    Metrics = {"read", "written"}
    MaxIncs = 3
INVARIANTS GateServes AnswerFresh  NeverShort
PROPERTIES CallsReturn ContextCloses NewsArrives Settles 
