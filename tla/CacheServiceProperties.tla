------------------------- MODULE CacheServiceProperties -------------------------
(***************************************************************************)
(* What the callers of CacheService may rely on, and what they may not.    *)
(***************************************************************************)
EXTENDS CacheService

Replies == {NotYet, NoOne} \cup Callers

\* A command on the wire is one of an attempt its caller has made.
Messages == [caller : Callers, step : Nat \ {0}, attempt : Nat \ {0}, reply : Replies]

\* Every variable has its type, every caller is at a call of its script, and
\* withRetry (cache.service.ts:49) never makes more attempts than it may.
CacheTypeOK ==
  /\ script \in [Callers -> Scripts]
  /\ step \in [Callers -> Nat \ {0}]
  /\ \A c \in Callers : step[c] \in DOMAIN script[c]
  /\ pc \in [Callers -> CallPCs]
  /\ attempt \in [Callers -> 1 .. MaxRetries]
  /\ answer \in [Callers -> Answers]
  /\ sent \in [Connections -> Seq(Messages)]
  /\ store \in [Keys -> Callers \cup {NoOne}]
  /\ volatile \subseteq Keys
  /\ taken \subseteq Callers
  /\ acked \subseteq Keys
  /\ known \subseteq Callers

\* acquireLock answered true and releaseLock has not settled.
Granted(c) ==
  /\ Call(c).op = "releaseLock"
  /\ pc[c] # "ended"

\* A caller that was told it has the lock has it: whatever became of earlier
\* attempts of its SET NX, and of those of others, the key is the one it set,
\* until the key expires or a DEL of somebody else removes it
\* (cache.service.ts:327-345).  Once its own DEL is sent the key may be gone.
GrantIsOwned ==
  \A c \in Callers :
    Granted(c) /\ pc[c] = "idle" /\ c \notin taken => store[Call(c).key] = c

\* A flag that was set before the question was asked is never reported absent:
\* while Redis is slow or away the caller gets an error, not a false
\* (cache.service.ts:225-255, isJwtBlacklisted 389, hasDedup 316).
FlagSeen ==
  \A c \in known :
    /\ Call(c).op = "exists"
    /\ pc[c] # "idle"
    /\ pc[c] = "ended" => answer[c] # "false"

\* Every call settles although Redis may never answer (withReadTimeout, 34).
EveryCacheCallSettles == \A c \in Callers : <>(pc[c] = "ended")

\* A lock key never stays for ever, not even one that a SET NX made after its
\* caller had given up (cache.service.ts:334, EX).
LocksEndUpFree == \A k \in LockKeys : []<>(store[k] = NoOne)
===============================================================================
