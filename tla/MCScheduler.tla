---------------------------- MODULE MCScheduler ----------------------------
\* Instances of Scheduler for TLC.
EXTENDS Scheduler

CONSTANTS d1, d2, h1, h2, k1, k2, v1, v2

============================================================================
