SPECIFICATION ApartSpec
CONSTANTS
  u1 = u1  u2 = u2
  c1 = c1  c2 = c2
  b1 = b1
  r1 = r1  r2 = r2  r3 = r3
  Users = {u1, u2}
  Coupons = {c1, c2}
  Books = {b1}
  Requests = {r1, r2, r3}
  NoRequest = NoRequest
  UnknownCode = UnknownCode
  UnknownBook = UnknownBook
  NoLimit = NoLimit
  BookOf <- MCBookOf
  MaxRedemptions <- MCMaxRedemptions
  MaxAssignments <- MCMaxAssignments
  MaxRedemptionsOfBook = 2
  MaxAssignmentsOfBook = 1
  Calls <- AllCalls
  Events = {"clock", "dedupTtl"}
SYMMETRY Symmetry
INVARIANTS
  SoleAssignee
  RedisLockHasOneOwner
  SnapshotStillFresh
  RedeemedMeansUsedUp
  LockColumnsAgree
  AvailableMeansUnassigned
  RedemptionLimit
  AssignmentLimit
PROPERTIES
  RedeemedIsFinal
CHECK_DEADLOCK FALSE
