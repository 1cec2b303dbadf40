------------------------- MODULE MCChangeProcessing -------------------------
\* Instances of ChangeProcessing for TLC.
EXTENDS ChangeProcessing

CONSTANTS d1, d2, r1, c1, c2

OneLegacy == <<d1>>
NoLegacy == <<>>

============================================================================
