CONSTANT MaxLeaderships = 3
SPECIFICATION HeartbeatSpec
INVARIANT OneTicker
PROPERTY FirstLeadershipBeats
\* A node that wins no more elections and runs no timer is quiet.
CHECK_DEADLOCK FALSE
