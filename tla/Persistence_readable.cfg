CONSTANTS
  SegmentRecords = 2
  Caller = {c1}
  MaxIndex = 2
  MaxTerm = 2
  MaxBatch = 2
  MaxCalls = 2
  MaxFaults = 1
SPECIFICATION Spec
INVARIANT ReadableWhenIdle
\* The callers stop calling.
CHECK_DEADLOCK FALSE
