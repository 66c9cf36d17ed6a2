CONSTANTS
  i1 = i1
  i2 = i2
  u1 = u1
  Invoices = {i1, i2}
  Users = {u1}
  UserOf <- MCUserOf
  Sessions = {"c1", "c2", "c3"}
  Hashes = {"h1", "h2"}
  NoHash = NoHash
  NoInvoice = NoInvoice
  Window = 1
  MaxTime = 2
SPECIFICATION Spec
INVARIANTS PaidInTimeIsKept PaidWasProven RetryIsRefused
PROPERTIES StuckUsersStay SettledInvoicesStay
CHECK_DEADLOCK FALSE
