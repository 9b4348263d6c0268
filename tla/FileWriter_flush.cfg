SPECIFICATION Spec
CONSTANTS
    Workers = {w1, w2}
    WriteTypes = {"ASYNC_THROUGH"}
    BlockSize = 3
    ChunkSize = 2
    Replicas = 2
    DurableMin = 1
    IgnoreUnknown = TRUE
    FlushEnabled = TRUE
    MaxBytes = 2
INVARIANT FlushFailureFatal
