SPECIFICATION RunSpec
CONSTANTS
    N = 3
    Agents = {1, 2, 3}
    Concurrency = 2
    Missing = Missing
    Graphs <- AllGraphs
    Assignments <- Partitions
INVARIANTS
    ReportRight
    NoMissedLaunch
    OrderedNeverStalls
    VerdictRight
    StrategyRight
    OutcomeRight
PROPERTIES
    RunResolves
    ImplementsTaskRun
    RunReturns
