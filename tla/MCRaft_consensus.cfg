CONSTANTS
  Server = {s1, s2, s3}
  Value = {v1}
  NoOp = NoOp
  None = None
  MaxEntriesPerAppend = 2
  MaxTerm = 2
  MaxElections = 2
  MaxCampaigns = 2
  LateVotes = FALSE
  MaxLogLen = 2
  MaxInFlight = 1
  MaxHeartbeats = 0
  MaxPreempted = 0
  MaxRestarts = 0
SYMMETRY ServerSymmetry
SPECIFICATION Spec
INVARIANTS
  TypeOK
  LogMatching
  CommittedOnMajority
  StateMachineSafety
PROPERTIES
  CommittedPrefixStable
\* The bounds stop the system: no election is left to start and no message to send.
CHECK_DEADLOCK FALSE
