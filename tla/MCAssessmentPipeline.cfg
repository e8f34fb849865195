SPECIFICATION Spec
CONSTANTS
    Requests <- MCRequests
    MaxAttempts = 1
    RegressionFindings <- MCRegressionFindings
    StaticStatuses <- MCStaticStatuses
    Formats <- MCFormats
    Policy <- MCPolicy
INVARIANTS
    NothingUnasked
    NeverOverclaimed
    ReportsAreFinal
    GreenMeansClean
PROPERTY
    ChecklistProtocol
\* run_assessment returns or raises, and that is the end
CHECK_DEADLOCK FALSE
