SPECIFICATION FairSpec
CONSTANTS
    N = 2
    Strategies <- MCStrategies
    Rounds = 2
    MaxElsewhere = 1
    Workers = 2
    MaxTime = 2
    Timeouts = {1, 3}
    Deadlines = {2, 3}
    Budgets <- MCBudgets
    Usage = {1}
INVARIANTS
    BudgetKept
    ChargedOwn
    AnswersRecorded
PROPERTIES
    RunTimeoutExplained
    RunEnds
