SPECIFICATION Spec
CONSTANTS
    Invocations <- MCInvocations
    Files <- MCFiles
    Outcomes <- MCOutcomes
    RegressionFindings <- MCRegressionFindings
    StaticStatuses <- MCStaticStatuses
INVARIANTS
    ConsentBeforeTraffic
    AssessExitCode
    NothingRunsUntold
PROPERTIES
    RetriesOnlyOutages
    EveryCommandEnds
\* a command ends with its exit code
CHECK_DEADLOCK FALSE
