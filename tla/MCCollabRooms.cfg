SPECIFICATION Spec
CONSTANTS
  t1 = t1
  NoTab = NoTab
  Files = {f1, f2}
  Tabs = {t1}
  Sockets = {s1, s2, s3}
  TabOf <- OneTab
  Joins = {j1, j2, j3}
  Voices = {v1, v2}
  NoSocket = NoSocket
  NoFile = NoFile
  MaxVoice = 1
  MaxFaults = 1
  FromRoom = TRUE
SYMMETRY Alike
INVARIANTS
  TypeOK
  OneRoom
  OnePresencePerTab
  VoiceCap
CHECK_DEADLOCK FALSE
