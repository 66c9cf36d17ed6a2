CONSTANTS
  a1 = a1
  a2 = a2
  a3 = a3
  u1 = u1
  u2 = u2
  ty1 = ty1
  Nobody = Nobody
  Actions = {a1, a2, a3}
  Users = {u1, u2}
  Types = {ty1}
  Owner <- MCOwner
  TypeOf <- MCTypeOf
  BadPayload = {a2}
  Cancellers = {"c1"}
  Results = {"ok", "error", "silent"}
  DbFaults = TRUE
  Crashes = TRUE
SPECIFICATION FairSpec
INVARIANTS SingleWorker Custody RunOnce CompletedMeansOk NoLostWakeup OpenRowsAreOwned
PROPERTIES CompletedIsOnlyCancelled EventuallySettled Implements
CHECK_DEADLOCK FALSE
