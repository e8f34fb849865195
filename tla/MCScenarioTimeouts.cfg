SPECIFICATION Spec
CONSTANTS
    Candidates <- MCQuotedCandidates
    Options <- MCOptions
    ActionTimeout = 2
    NavigationTimeout = 3
    MinStep = 2
    MinScenario = 2
    DefaultScenario = 3
    MaxScenario = 5
    ShotFloor = 2
    MaxStall = 1
INVARIANT
    TimeoutsAreNumbers
