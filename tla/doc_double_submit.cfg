SPECIFICATION Spec
CONSTANTS
  u1 = u1
  c1 = c1
  b1 = b1
  r1 = r1  r2 = r2
  Users = {u1}
  Coupons = {c1}
  Books = {b1}
  Requests = {r1, r2}
  NoRequest = NoRequest
  UnknownCode = UnknownCode
  UnknownBook = UnknownBook
  NoLimit = NoLimit
  BookOf <- MCBookOf
  MaxRedemptions <- MCMaxRedemptions
  MaxAssignments <- MCMaxAssignments
  MaxRedemptionsOfBook = 2
  MaxAssignmentsOfBook = NoLimit
  Calls <- RedeemCalls
  Events = {}
SYMMETRY Symmetry
INVARIANTS
  NoDoubleSubmit
CHECK_DEADLOCK FALSE
