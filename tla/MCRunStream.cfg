SPECIFICATION StreamSpec
CONSTANTS
    MaxCompleted = 0
    MaxStarts = 1
    MaxEvents = 2
    MaxConnections = 3
    MaxDrops = 2
INVARIANTS
    NeverFetchedEarly
    UnbrokenStreamComplete
PROPERTY
    UnbrokenWatcherFinishes
\* the bounded run ends and every handler has returned or waits for ever
CHECK_DEADLOCK FALSE
