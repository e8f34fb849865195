SPECIFICATION Spec
CONSTANTS
    MAX_CONCURRENCY = 3
    MAX_REQUESTS_PER_LEVEL = 3
    MAX_DURATION_SECONDS_PER_LEVEL = 2
    MAX_LEVELS = 2
    DEFAULT_REQUESTS_PER_LEVEL = 2
    DEFAULT_LOAD_CONCURRENCY <- MCLoadConcurrency
    DEFAULT_STRESS_MAX_CONCURRENCY = 2
    DEFAULT_STRESS_STEPS <- MCStressSteps
    DEFAULT_STRESS_STOP_ERROR_RATE_PERCENT = 50
    Arguments <- MCArguments
    MaxAnswers = 3
INVARIANTS
    BoundedConcurrency
    WithinEstimate
    EveryRequestCounted
    CancellationIsPrompt
    StressStops
PROPERTY
    RunEnds
\* the run ends
CHECK_DEADLOCK FALSE
