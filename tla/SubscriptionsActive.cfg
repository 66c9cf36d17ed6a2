CONSTANTS
  s1 = s1
  s2 = s2
  s3 = s3
  u1 = u1
  u2 = u2
  c1 = c1
  c2 = c2
  Subs = {s1, s2}
  Users = {u1, u2}
  UserOf <- MCUserOf
  Sessions = {c1, c2}
  Durations = {0, 1}
  NoSub = NoSub
  MaxTime = 1
SPECIFICATION Spec
INVARIANT OneActive
CHECK_DEADLOCK FALSE
