CONSTANT MaxLeaderships = 2
SPECIFICATION HeartbeatSpec
PROPERTY HeartbeatsContinue
\* A node that wins no more elections and runs no timer is quiet.
CHECK_DEADLOCK FALSE
