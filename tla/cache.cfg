SPECIFICATION FairCacheSpec
CONSTANTS
  A = A
  B = B
  p1 = p1
  p2 = p2
  lock = lock
  flag = flag
  active = active
  NoOne = NoOne
  NotYet = NotYet
  Callers = {A, B}
  Processes = {p1, p2}
  ProcessOf <- MCProcessOf
  Buckets = {"LOCKS", "JWT_BLACKLIST", "JWT_ACTIVE"}
  Keys = {lock, flag, active}
  BucketOf <- MCBucketOf
  LockKeys = {lock}
  Scripts <- MCScripts
  MaxRetries = 2
  Events = {"slow", "offline", "reconnect", "lockTtl", "flagTtl"}
INVARIANTS
  CacheTypeOK
  GrantIsOwned
  FlagSeen
PROPERTIES
  EveryCacheCallSettles
  LocksEndUpFree
CHECK_DEADLOCK FALSE
