SPECIFICATION Spec
CONSTANTS
    Invocations <- MCInvocations
    Files <- MCFiles
    Outcomes <- MCOutcomes
    RegressionFindings <- MCRegressionFindings
    StaticStatuses <- MCStaticStatuses
INVARIANT ConsentAsDocumented
\* a command ends with its exit code
CHECK_DEADLOCK FALSE
