CONSTANTS
  Server = {s1, s2, s3, s4}
  Value = {}
  NoOp = NoOp
  None = None
  MaxEntriesPerAppend = 2
  MaxTerm = 1
  MaxElections = 2
  MaxCampaigns = 2
  LateVotes = FALSE
  MaxLogLen = 0
  MaxInFlight = 0
  MaxHeartbeats = 0
  MaxPreempted = 0
  MaxRestarts = 0
SYMMETRY ServerSymmetry
SPECIFICATION Spec
INVARIANTS
  ElectionSafety
\* The bounds stop the system: no election is left to start and no message to send.
CHECK_DEADLOCK FALSE
