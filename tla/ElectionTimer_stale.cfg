CONSTANT MaxMessages = 2
SPECIFICATION Spec
PROPERTY OnlyFreshTimeouts
\* A stopped node does nothing more, and a stuck candidate neither.
CHECK_DEADLOCK FALSE
