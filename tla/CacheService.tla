------------------------------ MODULE CacheService ------------------------------
(***************************************************************************)
(* CacheService: every method is one Redis command, raced against a timer  *)
(* (withReadTimeout) and tried again when it fails (withRetry).  A command *)
(* that timed out is not taken back: it stays on its connection, where     *)
(* commands are executed and answered in the order they were sent, and its *)
(* late answer is ignored.  Each Node process has one connection for each  *)
(* bucket.  Redis executes one command at a time.                          *)
(***************************************************************************)
EXTENDS Integers, Sequences

CONSTANTS
  Callers,      \* the code that awaits methods of CacheService, one by one
  Processes,
  ProcessOf,    \* the Node process a caller runs in
  Buckets,      \* the values of CacheBucket that are used
  Keys,         \* Redis keys, the prefix of their bucket included
  BucketOf,
  LockKeys,     \* the keys of the LOCKS bucket
  Scripts,      \* the sequences of calls a caller may make
  MaxRetries,   \* the attempts of withRetry; 3 in the code
  NoOne,        \* the value of a key that does not exist
  NotYet,       \* the reply to a command that Redis has not executed
  Events        \* what may happen around the calls, see below

\* exists also stands for get and ttl, which read a key and fail the same way;
\* set for setDedup, setCursor and blacklistJwt.
Ops == {"acquireLock", "releaseLock", "set", "exists", "rotateActiveJwt"}

\* ttlSec, of which 0 is as good as none
CacheCalls == [op : Ops, key : Keys, ttl : BOOLEAN]

\*  slow       no answer comes before the timer
\*  offline    there is no connection, and the offline queue is disabled
\*  reconnect  the connection is lost and made again: the client sends what was
\*             not answered once more, or drops it
\*  lockTtl    a lock reaches its TTL while its holder still runs
\*  flagTtl    a key of another bucket reaches its TTL
AllEvents == {"slow", "offline", "reconnect", "lockTtl", "flagTtl"}

ASSUME CacheAssumption ==
  /\ ProcessOf \in [Callers -> Processes]
  /\ BucketOf \in [Keys -> Buckets]
  /\ LockKeys \subseteq Keys
  /\ Scripts \subseteq Seq(CacheCalls) \ {<<>>}
  /\ MaxRetries \in Nat \ {0}
  /\ NoOne \notin Callers
  /\ NotYet \notin Callers \cup {NoOne}
  /\ Events \subseteq AllEvents

\* acquireLock and releaseLock have their bucket to themselves, and the finally
\* blocks call releaseLock right after what acquireLock guards.
ASSUME ScriptAssumption ==
  \A calls \in Scripts : \A i \in DOMAIN calls :
    /\ calls[i].op \in {"acquireLock", "releaseLock"} <=> calls[i].key \in LockKeys
    /\ calls[i].op = "releaseLock" =>
         i > 1 /\ calls[i-1].op = "acquireLock" /\ calls[i-1].key = calls[i].key

VARIABLES
  script,    \* the calls a caller makes
  step,      \* which of them it makes now
  pc,        \* whether that call is to be made, awaited, retried; or none is left
  attempt,   \* the attempt withRetry is in
  answer,    \* what the last call that settled returned
  sent,      \* connection: commands without an answer, in the order sent
  store,     \* Redis: the caller that wrote a key, or NoOne
  volatile,  \* Redis: the keys with a TTL
  taken,     \* history: the lock holders whose key was removed by another
  acked,     \* history: the keys of a set that was answered OK before they expired
  known      \* history: the callers that began an exists after such an answer

callVars == <<script, step, pc, attempt, answer>>
redisVars == <<store, volatile>>
history == <<taken, acked, known>>
cacheVars == <<callVars, sent, redisVars, history>>

CallPCs == {"idle", "awaiting", "retry", "ended"}

Answers == {"none", "true", "false", "OK", "void", "error"} \cup Callers \cup {NoOne}

Call(c) == script[c][step[c]]

Connections == Processes \X Buckets
ConnectionOf(c) == <<ProcessOf[c], BucketOf[Call(c).key]>>

CacheInit ==
  /\ script \in [Callers -> Scripts]
  /\ step = [c \in Callers |-> 1]
  /\ pc = [c \in Callers |-> "idle"]
  /\ attempt = [c \in Callers |-> 1]
  /\ answer = [c \in Callers |-> "none"]
  /\ sent = [n \in Connections |-> <<>>]
  /\ store = [k \in Keys |-> NoOne]
  /\ volatile = {}
  /\ taken = {}
  /\ acked = {}
  /\ known = {}

-------------------------------------------------------------------------------
\* What a method makes of a reply, and of the error of its last attempt.

\* The reply of each command tells what the key held before it.
AnswerTo(op, held) ==
  CASE op = "acquireLock"     -> IF held = NoOne THEN "true" ELSE "false"
    [] op = "releaseLock"     -> "void"
    [] op = "set"             -> "OK"
    [] op = "exists"          -> IF held = NoOne THEN "false" ELSE "true"
    [] op = "rotateActiveJwt" -> held

\* Slip: a Redis that does not answer refuses nobody.
FailOpen(op) ==
  CASE op = "acquireLock" -> "true"
    [] op = "exists"      -> "false"
    [] op = "releaseLock" -> "void"
    [] OTHER              -> "error"

\* acquireLock and releaseLock catch the error; every other method throws it.
AnswerOnFailure(op) ==
  CASE op = "acquireLock" -> "false"
    [] op = "releaseLock" -> "void"
    [] OTHER              -> "error"

\* Slip: one retry too many.
OneMoreAttempt(op) == MaxRetries + 1

\* rotateActiveJwt is not wrapped: the client's own commandTimeout ends it.
Attempts(op) == IF op = "rotateActiveJwt" THEN 1 ELSE MaxRetries

\* The caller goes on to its next call unless this one refused it: a lock it
\* did not get, a flag that is there already, an error.
GoesOn(op, a) ==
  CASE op = "acquireLock" -> a = "true"
    [] op = "exists"      -> a = "false"
    [] OTHER              -> a # "error"

Settle(c, a) ==
  LET on == step[c] < Len(script[c]) /\ GoesOn(Call(c).op, a)
  IN /\ answer' = [answer EXCEPT ![c] = a]
     /\ pc' = [pc EXCEPT ![c] = IF on THEN "idle" ELSE "ended"]
     /\ step' = IF on THEN [step EXCEPT ![c] = @ + 1] ELSE step
     /\ attempt' = IF on THEN [attempt EXCEPT ![c] = 1] ELSE attempt
     /\ acked' = IF Call(c).op = "set" /\ a = "OK" /\ store[Call(c).key] # NoOne
                 THEN acked \cup {Call(c).key} ELSE acked
     /\ UNCHANGED script

FailAttempt(c) ==
  \/ /\ attempt[c] < Attempts(Call(c).op)
     /\ attempt' = [attempt EXCEPT ![c] = @ + 1]
     /\ pc' = [pc EXCEPT ![c] = "retry"]
     /\ UNCHANGED <<script, step, answer, acked>>
  \/ /\ attempt[c] >= Attempts(Call(c).op)
     /\ Settle(c, AnswerOnFailure(Call(c).op))

-------------------------------------------------------------------------------
\* The caller's side of a connection.

Begin(c) ==
  known' = IF /\ pc[c] = "idle" /\ Call(c).op = "exists"
              /\ Call(c).key \in acked
           THEN known \cup {c} ELSE known

Send(c) ==
  /\ pc[c] \in {"idle", "retry"}
  /\ sent' = [sent EXCEPT ![ConnectionOf(c)] =
                Append(@, [caller |-> c, step |-> step[c],
                           attempt |-> attempt[c], reply |-> NotYet])]
  /\ pc' = [pc EXCEPT ![c] = "awaiting"]
  /\ Begin(c)
  /\ UNCHANGED <<script, step, attempt, answer, redisVars, taken, acked>>

NotConnected(c) ==
  /\ "offline" \in Events
  /\ pc[c] \in {"idle", "retry"}
  /\ FailAttempt(c)
  /\ Begin(c)
  /\ UNCHANGED <<sent, redisVars, taken>>

\* Slip: no timer, the method awaits its answer for as long as it takes.
NoTimer(c) == FALSE

Timeout(c) ==
  /\ "slow" \in Events
  /\ pc[c] = "awaiting"
  /\ FailAttempt(c)
  /\ UNCHANGED <<sent, redisVars, taken, known>>

\* The promise of an attempt that was given up is settled already.
Awaited(m) ==
  /\ pc[m.caller] = "awaiting"
  /\ step[m.caller] = m.step
  /\ attempt[m.caller] = m.attempt

Receive(n) ==
  LET m == Head(sent[n])
  IN /\ sent[n] # <<>> /\ m.reply # NotYet
     /\ sent' = [sent EXCEPT ![n] = Tail(@)]
     /\ \/ /\ Awaited(m)
           /\ Settle(m.caller, AnswerTo(Call(m.caller).op, m.reply))
        \/ /\ ~Awaited(m)
           /\ UNCHANGED <<callVars, acked>>
     /\ UNCHANGED <<redisVars, taken, known>>

-------------------------------------------------------------------------------
\* Redis.

\* Slip: SET without NX.
ValueAfterPlainSet(op, c, held) ==
  CASE op = "releaseLock" -> NoOne
    [] op = "exists"      -> held
    [] OTHER              -> c

ValueAfter(op, c, held) ==
  CASE op = "acquireLock" -> IF held = NoOne THEN c ELSE held
    [] op = "releaseLock" -> NoOne
    [] op = "exists"      -> held
    [] OTHER              -> c

\* Slip: SET NX without EX.
TtlForgotten(call, held) ==
  IF call.op \in {"acquireLock", "releaseLock"} THEN volatile \ {call.key}
  ELSE volatile

\* The keys with a TTL after a command: SET without EX takes the TTL away.
VolatileAfter(call, held) ==
  CASE call.op = "acquireLock" -> IF held = NoOne THEN volatile \cup {call.key}
                                                  ELSE volatile
    [] call.op = "releaseLock" -> volatile \ {call.key}
    [] call.op = "exists"      -> volatile
    [] OTHER                   -> IF call.ttl THEN volatile \cup {call.key}
                                              ELSE volatile \ {call.key}

\* The next command of a connection, in the order they were sent.
FirstUnanswered(n, i) ==
  /\ sent[n][i].reply = NotYet
  /\ \A j \in 1 .. (i - 1) : sent[n][j].reply # NotYet

Execute(n) ==
  \E i \in DOMAIN sent[n] :
    LET c == sent[n][i].caller
        call == script[c][sent[n][i].step]
        held == store[call.key]
    IN /\ FirstUnanswered(n, i)
       /\ sent' = [sent EXCEPT ![n][i].reply = held]
       /\ store' = [store EXCEPT ![call.key] = ValueAfter(call.op, c, held)]
       /\ volatile' = VolatileAfter(call, held)
       /\ taken' = IF call.op = "releaseLock" /\ held \notin {NoOne, c}
                   THEN taken \cup {held} ELSE taken
       /\ UNCHANGED <<callVars, acked, known>>

\* A caller that has asked for a lock and has not given it back.
Uses(c, k) ==
  /\ Call(c).key = k
  /\ pc[c] # "ended"
  /\ step[c] > 1 \/ pc[c] # "idle"

\* The TTL of a lock is longer than all the attempts of its holder, unless the
\* event says that the holder is slower.
MayExpire(k) ==
  IF k \in LockKeys THEN \/ "lockTtl" \in Events
                        \/ \A c \in Callers : ~Uses(c, k)
                   ELSE "flagTtl" \in Events

Expire(k) ==
  /\ k \in volatile
  /\ MayExpire(k)
  /\ store' = [store EXCEPT ![k] = NoOne]
  /\ volatile' = volatile \ {k}
  /\ taken' = taken \cup ({store[k]} \ {NoOne})
  /\ acked' = acked \ {k}
  /\ known' = {c \in known : Call(c).key # k}
  /\ UNCHANGED <<callVars, sent>>

\* Everything without an answer is sent again, or is dropped; what was dropped
\* fails like a command that is never answered.
Reconnect(n) ==
  /\ "reconnect" \in Events
  /\ sent[n] # <<>>
  /\ \/ sent' = [sent EXCEPT ![n] =
                   [i \in DOMAIN @ |-> [@[i] EXCEPT !.reply = NotYet]]]
     \/ sent' = [sent EXCEPT ![n] = <<>>]
  /\ UNCHANGED <<callVars, redisVars, history>>

-------------------------------------------------------------------------------
CacheNext ==
  \/ \E c \in Callers : Send(c) \/ NotConnected(c) \/ Timeout(c)
  \/ \E n \in Connections : Receive(n) \/ Execute(n) \/ Reconnect(n)
  \/ \E k \in Keys : Expire(k)

CacheSpec == CacheInit /\ [][CacheNext]_cacheVars

\* Timers go off and callers go on; Redis drops a key whose TTL is over.  It
\* need not answer anything.
CacheFairness ==
  /\ \A c \in Callers : WF_cacheVars(Send(c)) /\ WF_cacheVars(Timeout(c))
  /\ \A k \in LockKeys : WF_cacheVars(Expire(k))

FairCacheSpec == CacheSpec /\ CacheFairness
===============================================================================
