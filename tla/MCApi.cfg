CONSTANTS
  Server = {s1, s2}
  Client = {c1}
  Goroutine = {g1, g2}
  Operation = {"write", "get", "batch"}
  MaxRetries = 1
  MaxRequests = 2
  MaxTerm = 2
SPECIFICATION Spec
INVARIANTS AtMostOnce RedirectedIsNowhere SettledLeaderReadsFresh OwnAnswerUnlessOvertaken
PROPERTIES CommittedUnderOneLeader
SYMMETRY Symmetry
CHECK_DEADLOCK FALSE
