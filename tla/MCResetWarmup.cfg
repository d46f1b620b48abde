SPECIFICATION FairSpec
CONSTANTS
    Accounts = {1}
    Executors = {e1, e2}
    Workers = {w1}
    Capacity = 1
    Grace = 1
    Horizon = 3
    MaxReset = 2
    LongResets = {2}
    MaxChanges = 3
    MaxStops = 1
INVARIANTS KeysExact OncePerCycle
PROPERTIES EveryReminderEnds
CHECK_DEADLOCK FALSE
