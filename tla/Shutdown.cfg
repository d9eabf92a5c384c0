CONSTANTS
  Caller = {c1, c2}
  Call = {h1, h2}
  Sender = {s1, s2}
  Peer = {p1, p2}
  Dead = {p2}
SPECIFICATION Spec
INVARIANTS QuietAfterStop PoolHasEveryConnection
PROPERTIES CallsAnswered StopWaitsForCallsOnly SendsEnd
\* A node that has been stopped, or that hangs in Stop, does nothing more.
CHECK_DEADLOCK FALSE
