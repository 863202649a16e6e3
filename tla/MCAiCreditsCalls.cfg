SPECIFICATION FairSpec
CONSTANTS
  u1 = u1
  u2 = u2
  o1 = o1
  o2 = o2
  r1 = r1
  r2 = r2
  c1 = c1
  c2 = c2
  c3 = c3
  Users = {u1, u2}
  Orders = {o1}
  Requests = {r1, r2}
  Calls = {c1, c2}
  Workers = {w1}
  w1 = w1
  NoRequest = NoRequest
  Payer <- MCPayer
  Owner <- MCOwner
  ReqOf <- MCReqOf
  EstOf <- MCEstOf
  Costs = {0, 9}
  Scale = 2
  TopUpAmounts = {1, 3}
  MinTopUp = 2
  ReleaseDelay = 1
  SweepAge = 2
  MaxFaults = 1
INVARIANTS
  TypeOK
  Reconciles
  DeliveredIsDecided
PROPERTIES
  DecidedOnce
  NoEarlyRelease
  ImplementsLedger
  EveryReservationDecided
  CapturedIsBooked
