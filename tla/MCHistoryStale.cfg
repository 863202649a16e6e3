SPECIFICATION Spec
CONSTANTS
  Files = {f1}
  Requests = {q1, q2}
  Keys = {}
  NoKey = NoKey
  NoFile = NoFile
  Cap = 1
  Limit = 1
  IdleWindow = 1
  MaxRev = 2
  MaxFaults = 0
INVARIANTS
  NewestVersionIsCurrent
CHECK_DEADLOCK FALSE
