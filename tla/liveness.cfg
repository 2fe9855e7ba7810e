SPECIFICATION FairSpec
CONSTANTS
  u1 = u1
  c1 = c1
  b1 = b1
  r1 = r1  r2 = r2  r3 = r3
  Users = {u1}
  Coupons = {c1}
  Books = {b1}
  Requests = {r1, r2, r3}
  NoRequest = NoRequest
  UnknownCode = UnknownCode
  UnknownBook = UnknownBook
  NoLimit = NoLimit
  BookOf <- MCBookOf
  MaxRedemptions <- MCMaxRedemptions
  MaxAssignments <- MCMaxAssignments
  MaxRedemptionsOfBook = 1
  MaxAssignmentsOfBook = 1
  Calls <- HolderCalls
  Events = {"crash", "redis"}
PROPERTIES
  EveryRequestEnds
  RedisLocksEndUpFree
CHECK_DEADLOCK FALSE
