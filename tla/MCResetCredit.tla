--------------------------- MODULE MCResetCredit ---------------------------
EXTENDS ResetCredit, TLC

CONSTANTS o1, o2, c1, c2, p1, p2

TwoOps == {o1, o2}
TwoCalls == {c1, c2}
OneProcess == {p1}
TwoProcesses == {p1, p2}
NoLegacy == {}
Interchangeable ==
    Permutations(Calls) \cup Permutations(Processes) \cup Permutations(Ops \ Legacy)
=============================================================================
