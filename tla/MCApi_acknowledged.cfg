CONSTANTS
  Server = {s1, s2}
  Client = {c1, c2}
  Goroutine = {g1}
  Operation = {"write", "get", "batch", "batchGet"}
  MaxRetries = 1
  MaxRequests = 2
  MaxTerm = 2
SPECIFICATION Spec
INVARIANT AcknowledgedWritesAreDecided
SYMMETRY Symmetry
CHECK_DEADLOCK FALSE
