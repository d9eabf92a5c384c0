CONSTANTS
  SegmentRecords = 2
  Caller = {c1, c2}
  MaxIndex = 2
  MaxTerm = 2
  MaxBatch = 2
  MaxCalls = 2
  MaxFaults = 1
SPECIFICATION FairSpec
INVARIANT TypeOK
PROPERTY CallsReturn
\* The callers stop calling.
CHECK_DEADLOCK FALSE
