SPECIFICATION FairSpec
CONSTANTS
    MemoryBudget = 1
    HandoffBudget = 2
    SegmentMax = 1
    BatchJobs = 2
    MaxJobs = 2
    Size <- Units
    MaxClears = 1
    MaxWork = 3
    MaxRestarts = 0
    FlushJobs = 2
    Faults <- LiveFaults
    Overlap = FALSE
INVARIANTS NothingVanishes
PROPERTIES EveryJobSettled BackToMemory
CHECK_DEADLOCK FALSE
