SPECIFICATION Spec
CONSTANTS
  t1 = t1
  NoTab = NoTab
  Files = {f1, f2}
  Tabs = {t1}
  Sockets = {s1, s2, s3}
  TabOf <- OneTab
  Joins = {j1, j2}
  Voices = {}
  NoSocket = NoSocket
  NoFile = NoFile
  MaxVoice = 1
  MaxFaults = 0
  FromRoom = FALSE
PROPERTIES
  EvictsPreviousSocket
CHECK_DEADLOCK FALSE
