SPECIFICATION Spec
CONSTANTS
    Attempts <- MCAttempts
    Severities <- MCSeverities
    Models <- MCModels
    Policies <- MCPolicies
INVARIANTS
    HeadlinesAgree
    ErrorMeansUnreachable
PROPERTIES
    BlockedStaysBlocked
    WorseNeverLooksBetter
\* everything has gone wrong
CHECK_DEADLOCK FALSE
