CONSTANTS
  Caller = {c1}
  Call = {h1}
  Sender = {s1}
  Peer = {p1}
  Dead = {}
SPECIFICATION Spec
PROPERTY StopReturns
\* A node that has been stopped, or that hangs in Stop, does nothing more.
CHECK_DEADLOCK FALSE
