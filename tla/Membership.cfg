CONSTANTS
  Node = {n1, n2, n3}
  InitialMembers = {n1, n2}
  Caller = {a1, a2}
  CatchUpIndexGap = 1
  Word = 16
  None = None
  MaxIndex = 4
  MaxReplays = 2
  MaxReport = 2
SPECIFICATION Spec
INVARIANTS TypeOK UndisturbedProposalIsPending StatusesAreOfLearners
PROPERTIES VotersRemain ConsecutiveQuorumsMeet PromotedHavingCaughtUp
