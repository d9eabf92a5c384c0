CONSTANTS
  k1 = k1
  v1 = v1
  Key = {k1}
  Value = {v1}
  EmptyKey = EmptyKey
  Absent = Absent
  Chunks = 2
  Writer = {w1, w2}
  Inputs <- OneKey
  MaxApplied = 2
  MaxWrites = 2
  MaxFaults = 1
SPECIFICATION Spec
INVARIANT BatchesTakeEffect
\* A manager whose lock a hanging Create holds does nothing more.
CHECK_DEADLOCK FALSE
