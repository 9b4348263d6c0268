SPECIFICATION SuiteSpec
CONSTANTS
    Tasks = {t1, t2}
    PoolSize = 2
    Calls = {"acquire", "reconnect_if_stale", "reconnect", "invalidate"}
    MaxGen = 2
    MaxInvalidates = 1
    Users = {u1, u2}
    MaxIds = 3
    MaxTroubles = 3
    RequestCap = 2
    ResponseCap = 1
    MaxWrites = 5
    MaxGivenUp = 2
    Sleeps = {0, 1, 2, 5}
    MaxDuration = 9
    MaxRetries = 3
    MaxAttemptTime = 3
INVARIANTS OneHandshake AcksMeanStored RetryBounded
PROPERTIES SessionHeld NeverStaleAgain LinkReturns
