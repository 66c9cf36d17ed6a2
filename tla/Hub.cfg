CONSTANTS
  Sockets = {s1, s2}
  Users = {u1, u2}
  Admins = {u2}
  NoUser = NoUser
  Sends = {t1, t2}
  ToAdmins = ToAdmins
  ToAll = ToAll
SPECIFICATION Spec
SYMMETRY Interchangeable
INVARIANTS NoKeyError EndedSocketsAreGone LiveSocketsAreListed ListedUsersHaveSockets SendsTryAll
CHECK_DEADLOCK FALSE
