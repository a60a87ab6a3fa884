SPECIFICATION FairSpec
CONSTANTS
    x = x
    y = y
    N = 3
    Agents = {x, y, ghost}
    NoAgent = NoAgent
    Pool <- TwoAgents
    MaxAttempts = 3
    MaxReplans = 1
    Plans <- AllPlans
INVARIANTS
    BudgetKept
    CancelledToldRight
    DispatchedRight
PROPERTIES
    DecisionsRight
    RunEnds
