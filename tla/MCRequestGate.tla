--------------------------- MODULE MCRequestGate ---------------------------
EXTENDS RequestGate

CONSTANTS r1, r2, r3, r4, l1, l2

MixedRequests == {r1, r2, r3, r4}
MixedBlocking == {r1, r2}
TwoLocks == {l1, l2}
OneOrTwo == {1, 2}
=============================================================================
