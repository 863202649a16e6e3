SPECIFICATION TSpec
CONSTANTS
  Files = {f1}
  Requests = {q1, q2, q3}
  Keys = {k1, k2}
  NoKey = NoKey
  NoFile = NoFile
  Cap = 1
  Limit = 1
  IdleWindow = 1
  MaxRev = 2
  MaxFaults = 0
SYMMETRY Alike
INVARIANTS
  PointersAreLive
CHECK_DEADLOCK FALSE
