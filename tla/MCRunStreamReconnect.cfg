SPECIFICATION StreamSpec
CONSTANTS
    MaxCompleted = 1
    MaxStarts = 1
    MaxEvents = 1
    MaxConnections = 2
    MaxDrops = 1
PROPERTY
    WatcherFinishes
CHECK_DEADLOCK FALSE
