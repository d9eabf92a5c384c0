CONSTANTS
  SegmentRecords = 2
  Caller = {c1, c2}
  MaxIndex = 2
  MaxTerm = 2
  MaxBatch = 2
  MaxCalls = 3
  MaxFaults = 2
SPECIFICATION Spec
SYMMETRY CallerSymmetry
INVARIANTS WalAgreesWithStore IntegrityHolds
PROPERTY WalIsDurable
\* The callers stop calling.
CHECK_DEADLOCK FALSE
