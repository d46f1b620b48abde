SPECIFICATION FairSpec
CONSTANTS
    r1 = r1  r2 = r2  r3 = r3  r4 = r4
    l1 = l1  l2 = l2
    Requests <- MixedRequests
    Blocking <- MixedBlocking
    Locks <- TwoLocks
    Limits <- OneOrTwo
    NoLock = NoLock
INVARIANTS TypeOK SharedGate SlotsExact
PROPERTIES AdmittedBelowLimit EveryRequestServed
CHECK_DEADLOCK FALSE
