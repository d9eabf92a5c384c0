CONSTANT MaxLeaderships = 1
SPECIFICATION HeartbeatSpec
PROPERTY TimerStops
\* A node that wins no more elections and runs no timer is quiet.
CHECK_DEADLOCK FALSE
