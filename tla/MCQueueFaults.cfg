SPECIFICATION Spec
CONSTANTS
    MemoryBudget = 0
    HandoffBudget = 2
    SegmentMax = 2
    BatchJobs = 1
    MaxJobs = 2
    Size <- Units
    MaxClears = 2
    MaxWork = 3
    MaxRestarts = 0
    FlushJobs = 2
    Faults <- Failures
    Overlap = TRUE
INVARIANTS TypeOK AccountingExact
CHECK_DEADLOCK FALSE
