SPECIFICATION Spec
CONSTANTS
    MemoryBudget = 1
    HandoffBudget = 2
    SegmentMax = 2
    BatchJobs = 1
    MaxJobs = 3
    Size <- Units
    MaxClears = 1
    MaxWork = 4
    MaxRestarts = 1
    FlushJobs = 2
    Faults <- Setbacks
    Overlap = FALSE
INVARIANTS NothingVanishes
PROPERTIES CaptureOrder DiscardsOnlyStale
CHECK_DEADLOCK FALSE
