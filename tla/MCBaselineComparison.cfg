SPECIFICATION Spec
CONSTANTS
    Families <- MCFamilies
    StageSets <- MCStageSets
    Tolerance <- MCTolerance
INVARIANTS
    ComparedWasSaved
    BreakageIsSeen
    NoFalseAlarm
    NothingMadeUp
