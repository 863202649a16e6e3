SPECIFICATION FairTSpec
CONSTANTS
  Files = {f1}
  Requests = {q1, q2}
  Keys = {k1, k2}
  NoKey = NoKey
  NoFile = NoFile
  Cap = 2
  Limit = 1
  IdleWindow = 1
  MaxRev = 3
  MaxFaults = 1
INVARIANTS
  TypeOK
  AutoCap
  AutoOnlyAfterChange
PROPERTIES
  SweepKeepsPinned
  ManualKept
  ImplementsLog
  IdleIsVersioned
CHECK_DEADLOCK FALSE
