-------------------------- MODULE MCSyslogTrigger --------------------------
\* Instances of SyslogTrigger for TLC.
EXTENDS SyslogTrigger

CONSTANTS d1, d2, u1, u2, s1, s2, s3

============================================================================
