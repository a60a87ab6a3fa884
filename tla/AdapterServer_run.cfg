SPECIFICATION Spec
CONSTANTS
    Threads = {t1, t2}
    Ids = {s1, s2, s3}
    Ttl = 2
    MaxSessions = 2
    MaxRuns = 1
    Limit = 1
    EmptyFactory = TRUE
    MaxTime = 2
    MaxRequests = 4
    MaxFaults = 2
SYMMETRY Interchangeable
INVARIANTS
    SessionsIsolated
    RunsAccounted
    HistoryKeeps
PROPERTIES
    EvictionNeeded
