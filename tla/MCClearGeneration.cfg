SPECIFICATION FairSpec
CONSTANTS
    j1 = j1
    c1 = c1
    c2 = c2
    Jobs <- OneJob
    Clears <- TwoClears
    MaxRestores = 1
    MaxRestarts = 1
    MaxEvents = 2
INVARIANTS MirrorExact
PROPERTIES NoStaleWrite MirrorCatchesUp
CHECK_DEADLOCK FALSE
