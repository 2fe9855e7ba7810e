------------------------------ MODULE MCCacheService ------------------------------
EXTENDS CacheServiceProperties, TLC

CONSTANTS A, B, p1, p2, lock, flag, active

MCProcessOf == [c \in Callers |-> IF c = A THEN p1 ELSE p2]

MCBucketOf == (lock :> "LOCKS") @@ (flag :> "JWT_BLACKLIST") @@ (active :> "JWT_ACTIVE")

\* A handler with its lock; a logout and the guard that asks for it; a login.
MCScripts ==
  { << [op |-> "acquireLock", key |-> lock, ttl |-> TRUE],
       [op |-> "releaseLock", key |-> lock, ttl |-> FALSE] >>,
    << [op |-> "set", key |-> flag, ttl |-> TRUE] >>,
    << [op |-> "exists", key |-> flag, ttl |-> FALSE] >>,
    << [op |-> "rotateActiveJwt", key |-> active, ttl |-> TRUE] >> }
===============================================================================
