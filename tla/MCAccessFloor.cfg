SPECIFICATION Spec
CONSTANTS
  u1 = u1
  s1 = s1
  Users = {u1}
  Owner = Owner
  Sockets = {s1}
  UserOf <- MCUserOf
  Messages = {m1, m2}
  ShareRoles = {"VIEWER", "EDITOR"}
  Floors = {"EDITOR"}
  TTL = 2
  MaxClock = 4
SYMMETRY Alike
INVARIANTS
  TypeOK
PROPERTIES
  RevokedWithinTTL
  GrantedWithinTTL
CHECK_DEADLOCK FALSE
