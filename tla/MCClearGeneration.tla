-------------------------- MODULE MCClearGeneration --------------------------
EXTENDS ClearGeneration

CONSTANTS j1, c1, c2

OneJob == {j1}
TwoClears == {c1, c2}
=============================================================================
