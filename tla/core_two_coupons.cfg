SPECIFICATION Spec
CONSTANTS
  u1 = u1  u2 = u2
  c1 = c1  c2 = c2
  b1 = b1
  r1 = r1  r2 = r2
  Users = {u1, u2}
  Coupons = {c1, c2}
  Books = {b1}
  Requests = {r1, r2}
  NoRequest = NoRequest
  UnknownCode = UnknownCode
  UnknownBook = UnknownBook
  NoLimit = NoLimit
  BookOf <- MCBookOf
  MaxRedemptions <- MCMaxRedemptions
  MaxAssignments <- MCMaxAssignments
  MaxRedemptionsOfBook = 2
  MaxAssignmentsOfBook = 1
  Calls <- AnyCalls
  Events = {"abort", "crash", "redis", "ttl", "dedupTtl", "clock", "deactivate"}
SYMMETRY Symmetry
INVARIANTS
  TypeOK
  CoreInv
  RowsLockedByOpenTransactions
  NoLostRedemption
PROPERTIES
  ImplementsLedger
CHECK_DEADLOCK FALSE
