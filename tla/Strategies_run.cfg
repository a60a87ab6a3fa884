SPECIFICATION StrategiesSpec
CONSTANTS
    Runs = {1, 2}
    NoName = "none"
    MaxRepairs = 2
    Capacity = 6
    Names <- Team
    CapsOf <- Skills
    Answers = {"x", "y"}
    PlanAnswers <- Plans
    Votes <- Ballots
    StartOf <- OneBeginsAnother
    Jobs <- Assignments
INVARIANTS
    MemoryRight
    DebateHeard
    PlanRight
    ResultRight
