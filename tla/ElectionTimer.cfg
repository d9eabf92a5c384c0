CONSTANT MaxMessages = 3
SPECIFICATION Spec
INVARIANT FollowerTimesOut
PROPERTIES
  LeaderNeverCampaigns
  FollowerCampaigns
  StopEnds
\* A stopped node does nothing more, and a stuck candidate neither.
CHECK_DEADLOCK FALSE
