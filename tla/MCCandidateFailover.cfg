SPECIFICATION FairSpec
CONSTANTS
    a1 = a1
    a2 = a2
    a3 = a3
    r1 = r1
    r2 = r2
    Requests = {r1, r2}
    Accounts = {a1, a2, a3}
    Candidates <- Opposite
    GateLimit = 1
    MaxInflight = 1
    Anthropic = {r2}
INVARIANTS TypeOK InflightExact LastCandidateDecides
PROPERTIES EveryRequestEnds
CHECK_DEADLOCK FALSE
