SPECIFICATION FairSpec
CONSTANTS
    N = 3
    Workers = 2
    MaxConcurrency = 2
    MaxTime = 2
    Plans <- AllPlans
    Timeouts <- Ascending
    Deadlines = {2, 3}
INVARIANTS
    SlotsBalanced
    OrphansTold
    StatusTruthful
PROPERTIES
    ResultsKept
    RunEnds
