CONSTANTS
  Server = {s1, s2, s3}
  Value = {v1}
  NoOp = NoOp
  None = None
  MaxEntriesPerAppend = 2
  MaxTerm = 1
  MaxElections = 1
  MaxCampaigns = 1
  LateVotes = FALSE
  MaxLogLen = 2
  MaxInFlight = 2
  MaxHeartbeats = 0
  MaxPreempted = 0
  MaxRestarts = 0
SYMMETRY ServerSymmetry
SPECIFICATION Spec
PROPERTIES
  MatchIndexMonotonic
\* The bounds stop the system: no election is left to start and no message to send.
CHECK_DEADLOCK FALSE
