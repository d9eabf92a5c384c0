CONSTANTS
  Server = {s1, s2, s3}
  Value = {}
  NoOp = NoOp
  None = None
  MaxEntriesPerAppend = 2
  MaxTerm = 2
  MaxElections = 2
  MaxCampaigns = 1
  LateVotes = FALSE
  MaxLogLen = 1
  MaxInFlight = 1
  MaxHeartbeats = 0
  MaxPreempted = 1
  MaxRestarts = 1
SYMMETRY ServerSymmetry
SPECIFICATION Spec
INVARIANTS
  VotesBoundWinners
PROPERTIES
  LeaderCutByImpostorOnly
\* The bounds stop the system: no election is left to start and no message to send.
CHECK_DEADLOCK FALSE
