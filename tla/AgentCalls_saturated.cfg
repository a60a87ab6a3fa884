SPECIFICATION Spec
CONSTANTS
    N = 1
    Strategies <- MCSaturated
    Rounds = 1
    MaxElsewhere = 0
    Workers = 1
    MaxTime = 2
    Timeouts = {3}
    Deadlines = {3}
    Budgets <- MCBudgets
    Usage = {1}
INVARIANTS
    SaturationIsTimeout
CHECK_DEADLOCK FALSE
