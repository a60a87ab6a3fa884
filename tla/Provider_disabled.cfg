SPECIFICATION Spec
CONSTANTS
    Threads = {t1}
    Keys = {k1}
    N = 1
    Registered = {1}
    Caching = {1}
    Retries = 0
    CacheSize = 1
    MaxCalls = 2
    MaxSwitches = 1
INVARIANT DisabledIsOff
