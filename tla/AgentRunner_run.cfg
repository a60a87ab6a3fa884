SPECIFICATION FairSpec
CONSTANTS
    Calls = {1, 2, 3}
    RunOf <- TwoRuns
    Undefined = Undefined
INVARIANTS
    SliceIsOwn
    OutcomeTruthful
    NothingLeft
PROPERTIES
    CallsReturn
