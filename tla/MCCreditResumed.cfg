SPECIFICATION Spec
CONSTANTS
    o1 = o1  o2 = o2
    c1 = c1  c2 = c2
    p1 = p1  p2 = p2
    NoOp = NoOp  NoCall = NoCall
    Ops <- TwoOps
    Calls <- TwoCalls
    Processes <- OneProcess
    Legacy <- NoLegacy
    Credits = 2

INVARIANT OutcomeReconciled
CHECK_DEADLOCK FALSE
