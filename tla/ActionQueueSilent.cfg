CONSTANTS
  a1 = a1
  a2 = a2
  a3 = a3
  u1 = u1
  u2 = u2
  ty1 = ty1
  Nobody = Nobody
  Actions = {a1}
  Users = {u1, u2}
  Types = {ty1}
  Owner <- MCOwner
  TypeOf <- MCTypeOf
  BadPayload = {}
  Cancellers = {"c1"}
  Results = {"ok", "error", "silent"}
  DbFaults = FALSE
  Crashes = FALSE
SPECIFICATION Spec
INVARIANT ErrorIsRecorded
CHECK_DEADLOCK FALSE
