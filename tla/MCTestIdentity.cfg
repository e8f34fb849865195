SPECIFICATION Spec
CONSTANTS
    Families <- MCFamilies
    StageSets <- MCStageSets
    Tolerance <- MCTolerance
INVARIANT
    OnlyCommonTestsRegress
