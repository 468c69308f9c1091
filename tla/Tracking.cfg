SPECIFICATION FairSpec
CONSTANTS
    Drivers = {d1}
    BatchSize = 2
    MaxReports = 3
    MaxFaults = 2
INVARIANTS NothingForgotten MemoryAheadOfRows
PROPERTY EventuallyQueued
CHECK_DEADLOCK FALSE
