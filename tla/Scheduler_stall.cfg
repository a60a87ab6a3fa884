SPECIFICATION Spec
CONSTANTS
    N = 3
    Agents = {1}
    Concurrency = 1
    Graphs <- AllDags
    Assignments <- Partitions
INVARIANTS
    NoStall
