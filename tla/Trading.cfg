CONSTANTS
  r1 = r1
  r2 = r2
  r3 = r3
  c1 = c1
  c2 = c2
  u1 = u1
  s1 = s1
  Requests = {r1, r2, r3}
  Clients = {c1, c2}
  Users = {u1}
  Services = {s1}
  ClientOf <- MCClientOf
  UserOf <- MCUserOf
  ServiceOf <- MCServiceOf
  MaxTrades = 1
  Hour = 3
  Cooldown = 1
  MaxTime = 3
SPECIFICATION Spec
INVARIANTS OrdersAreRecorded StatusTellsReply OverrunIsBounded ClientsCoolDown KillSwitchHolds OpenRecordsAreInFlight
CHECK_DEADLOCK FALSE
