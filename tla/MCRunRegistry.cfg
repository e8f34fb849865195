SPECIFICATION Spec
CONSTANTS
    MaxCompleted = 2
    MaxStarts = 4
    MaxEvents = 1
INVARIANTS
    TypeOK
    SingleActiveRun
    ActiveRunRetained
    EvictedOnlyWhenDisplaced
    RegistryBounded
    VerdictIsExclusive
PROPERTY
    ImplementsLifecycle
\* every accepted run ends and the bound on starts is reached
CHECK_DEADLOCK FALSE
