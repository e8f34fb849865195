SPECIFICATION Spec
CONSTANTS
    Candidates <- MCCandidates
    Options <- MCOptions
    ActionTimeout = 2
    NavigationTimeout = 3
    MinStep = 2
    MinScenario = 2
    DefaultScenario = 3
    MaxScenario = 5
    ShotFloor = 2
    MaxStall = 1
INVARIANTS
    ReportTellsTheRun
    WithinBudget
    SessionReleased
    FailureIsAnAssertion
