SPECIFICATION Spec
CONSTANTS
    Threads = {t1, t2}
    Keys = {k1, k2, k3}
    N = 2
    Registered = {2}
    Caching = {1}
    Retries = 1
    CacheSize = 2
    MaxCalls = 4
    MaxSwitches = 1
SYMMETRY Interchangeable
INVARIANTS
    AbsorbedRight
    CacheRight
