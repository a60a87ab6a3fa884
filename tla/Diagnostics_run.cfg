SPECIFICATION Spec
CONSTANTS
    Runs <- FourRuns
    idOf <- Ids
    managerOf <- Managers
    MaxRuns = 2
    MaxAttempts = 2
INVARIANTS
    OperatorTold
    NoGhostRun
