---------------------------- MODULE MCDelivery ----------------------------
\* Instances of Delivery for TLC.
EXTENDS Delivery

CONSTANTS d1, r1, c1, c2

OneLegacy == <<d1>>
BothNotifiers == <<"webhook", "discord">>

============================================================================
