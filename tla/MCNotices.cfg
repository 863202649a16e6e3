SPECIFICATION Spec
CONSTANTS
  u1 = u1
  Owner = owner
  Users = {u1}
  Runs = {c1, c2}
  Switches <- OneSwitch
  MaxFaults = 1
CONSTRAINT OneMessage
SYMMETRY Alike
INVARIANTS TypeOK MentionsWereGranted RemovalToldOnce MutedIsSilent OkMeansTold GhostOnlyIfReordered
CHECK_DEADLOCK FALSE
