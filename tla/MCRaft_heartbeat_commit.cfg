CONSTANTS
  Server = {s1, s2, s3}
  Value = {}
  NoOp = NoOp
  None = None
  MaxEntriesPerAppend = 2
  MaxTerm = 2
  MaxElections = 2
  MaxCampaigns = 2
  LateVotes = FALSE
  MaxLogLen = 1
  MaxInFlight = 1
  MaxHeartbeats = 1
  MaxPreempted = 0
  MaxRestarts = 0
SYMMETRY ServerSymmetry
SPECIFICATION Spec
INVARIANTS
  StateMachineSafety
\* The bounds stop the system: no election is left to start and no message to send.
CHECK_DEADLOCK FALSE
