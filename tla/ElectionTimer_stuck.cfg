CONSTANT MaxMessages = 0
SPECIFICATION Spec
INVARIANT CandidateTimesOut
\* A stopped node does nothing more, and a stuck candidate neither.
CHECK_DEADLOCK FALSE
