---------------------------- MODULE CouponsService ----------------------------
(***************************************************************************)
(* Concurrent calls of CouponsService: assign (random, specific), lock,    *)
(* unlock, redeem.  A request runs the handler of one call; between two    *)
(* awaits it runs alone, at an await any other request may run, so a step  *)
(* below is what a handler does from one await to the next.  A database    *)
(* transaction is two steps: its locking SELECT, and then its checks, its  *)
(* writes and COMMIT, which nobody sees before they are all done.          *)
(* PostgreSQL runs at READ COMMITTED.                                      *)
(***************************************************************************)
EXTENDS CouponStore

CONSTANTS
  Requests,     \* handler invocations; each serves one call
  NoRequest,    \* the owner of a row nobody has locked
  UnknownCode,  \* a coupon code that is in no row of coupons
  UnknownBook,  \* a book id that is in no row of coupon_books
  Calls,        \* the calls clients may make
  Events        \* what may happen around the handlers, see below

Ops == {"assignRandom", "assignSpecific", "lock", "unlock", "redeem"}

\*  abort     a statement, or the connection, fails: PostgreSQL rolls back
\*  crash     the Node process that serves a request dies
\*  redis     a Redis command fails, or times out after it was applied
\*  ttl       a Redis lock outlives its TTL while its request still runs
\*  dedupTtl  a deduplication flag reaches its TTL
\*  clock     valid_from, valid_until and lock_expires_at go by
\*  deactivate  the administrator deactivates books
AllEvents == {"abort", "crash", "redis", "ttl", "dedupTtl", "clock",
              "deactivate"}

Codes == Coupons \cup {UnknownCode}

ASSUME RequestAssumption ==
  /\ NoRequest \notin Requests
  /\ UnknownCode \notin Coupons
  /\ UnknownBook \notin Books
  /\ Calls \subseteq [op : Ops, user : Users, code : Codes,
                      book : Books \cup {UnknownBook}]
  /\ Events \subseteq AllEvents

VARIABLES
  req,         \* the call a request serves
  pc,          \* where its handler is
  resp,        \* the answer the handler has decided on
  target,      \* the coupon its transaction works on
  seen,        \* the columns it read, as they were when it read them
  couponLock,  \* who holds FOR UPDATE on the row of a coupon
  bookLock,    \* who holds FOR UPDATE on the row of a book
  dedup,       \* Redis: the deduplication flags that exist
  redisLocks,  \* Redis: the lock keys that exist
  committed    \* history: the requests whose transaction has committed

handlerVars == <<req, pc, resp, target, seen>>
rowLocks == <<couponLock, bookLock>>
redisVars == <<dedup, redisLocks>>
vars == <<storeVars, handlerVars, rowLocks, redisVars, committed>>

Answers == {"none", "ok", "rejected", "conflict", "notFound", "serverError"}

PCs == {"findBook", "findCoupon", "checkLimit", "hasDedup", "setDedup",
        "acquire", "select", "write", "release", "done", "crashed"}

Nothing == [status |-> "available", version |-> 1, count |-> 0]

\* The keys a handler builds from the code and the user of its call.  Neither
\* holds an owner: the value of a lock key is a time of day nobody compares.
DedupKey(r) == <<req[r].code, req[r].user>>
\* Slip: the key of a lock holds the user, so two users do not exclude each other.
LockKeyPerUser(r) == <<req[r].op, req[r].code, req[r].user>>

LockKey(r) == IF req[r].op = "redeem"
              THEN <<"coupon-redeem", req[r].code, req[r].user>>
              ELSE <<"coupon-lock", req[r].code>>

LockKeys == ({"coupon-redeem"} \X Codes \X Users) \cup ({"coupon-lock"} \X Codes)

FirstStep(op) ==
  CASE op = "assignRandom"   -> "findBook"
    [] op = "assignSpecific" -> "findCoupon"
    [] op = "lock"           -> "acquire"
    [] op = "unlock"         -> "select"
    [] op = "redeem"         -> "hasDedup"

Init ==
  /\ StoreInit
  /\ req \in [Requests -> Calls]
  /\ pc = [r \in Requests |-> FirstStep(req[r].op)]
  /\ resp = [r \in Requests |-> "none"]
  /\ target = [r \in Requests |-> UnknownCode]
  /\ seen = [r \in Requests |-> Nothing]
  /\ couponLock = [c \in Coupons |-> NoRequest]
  /\ bookLock = [b \in Books |-> NoRequest]
  /\ dedup = {}
  /\ redisLocks = {}
  /\ committed = {}

-------------------------------------------------------------------------------
\* Moving a handler.

Goto(r, label) == /\ pc' = [pc EXCEPT ![r] = label]
                  /\ UNCHANGED resp

Reply(r, answer) == /\ pc' = [pc EXCEPT ![r] = "done"]
                    /\ resp' = [resp EXCEPT ![r] = answer]

\* Slip: the SELECT has no FOR UPDATE.
LockNothing(r, c) == UNCHANGED couponLock

\* Locking SELECTs take the row of the coupon before any row of its
\* assignments, so an assignment row needs no lock of its own here.
LockCoupon(r, c) == couponLock' = [couponLock EXCEPT ![c] = r]

\* Slip: no finally block.
EndWithoutFinally(r, answer) ==
  /\ couponLock' = [c \in Coupons |-> IF couponLock[c] = r THEN NoRequest
                                                           ELSE couponLock[c]]
  /\ bookLock' = [b \in Books |-> IF bookLock[b] = r THEN NoRequest
                                                     ELSE bookLock[b]]
  /\ Reply(r, answer)

\* The transaction is over, by COMMIT or ROLLBACK: its rows are free, and a
\* handler that holds a Redis lock goes on to its finally block.
EndTransaction(r, answer) ==
  /\ couponLock' = [c \in Coupons |-> IF couponLock[c] = r THEN NoRequest
                                                           ELSE couponLock[c]]
  /\ bookLock' = [b \in Books |-> IF bookLock[b] = r THEN NoRequest
                                                     ELSE bookLock[b]]
  /\ pc' = [pc EXCEPT ![r] = IF req[r].op \in {"lock", "redeem"}
                             THEN "release" ELSE "done"]
  /\ resp' = [resp EXCEPT ![r] = answer]

\* Slip: an error leaves the handler and the transaction stays open.
LeaveOpen(r, answer) ==
  /\ Reply(r, answer)
  /\ UNCHANGED <<storeVars, rowLocks, committed>>

Rollback(r, answer) ==
  /\ EndTransaction(r, answer)
  /\ UNCHANGED <<storeVars, committed>>

\* COMMIT may be applied and its acknowledgement lost with the connection.
Commit(r) ==
  /\ \/ EndTransaction(r, "ok")
     \/ "abort" \in Events /\ EndTransaction(r, "serverError")
  /\ committed' = committed \cup {r}

-------------------------------------------------------------------------------
\* assignRandomCoupon and assignSpecificCoupon, before their transactions.

\* validateCouponBook, and the early return of checkUserAssignmentLimit.
ValidateBook(r, b) ==
  \/ ~ValidCouponBook(b) /\ Reply(r, "rejected")
  \/ ValidCouponBook(b) /\ Goto(r, IF MaxAssignments[b] = NoLimit
                                   THEN "select" ELSE "checkLimit")

FindBook(r) ==
  /\ pc[r] = "findBook"
  /\ \/ req[r].book \notin Books /\ Reply(r, "notFound")
     \/ req[r].book \in Books /\ ValidateBook(r, req[r].book)
  /\ UNCHANGED <<storeVars, req, target, seen, rowLocks, redisVars, committed>>

\* The entity read here is the one the transaction will test.
FindCoupon(r) ==
  /\ pc[r] = "findCoupon"
  /\ \/ req[r].code \notin Coupons /\ Reply(r, "notFound")
        /\ UNCHANGED <<target, seen>>
     \/ /\ req[r].code \in Coupons
        /\ ValidateBook(r, BookOf[req[r].code])
        /\ target' = [target EXCEPT ![r] = req[r].code]
        /\ seen' = [seen EXCEPT ![r].status = status[req[r].code]]
  /\ UNCHANGED <<storeVars, req, rowLocks, redisVars, committed>>

\* Counted outside the transaction that will insert.
CheckUserAssignmentLimit(r) ==
  LET b == IF req[r].op = "assignRandom" THEN req[r].book ELSE BookOf[target[r]]
      held == Cardinality(HeldFrom(b, req[r].user))
  IN /\ pc[r] = "checkLimit"
     /\ \/ ReachedLimit(held, MaxAssignments[b]) /\ Reply(r, "rejected")
        \/ ~ReachedLimit(held, MaxAssignments[b]) /\ Goto(r, "select")
     /\ UNCHANGED <<storeVars, req, target, seen, rowLocks, redisVars, committed>>

-------------------------------------------------------------------------------
\* The locking SELECT that opens each transaction.

\* FOR UPDATE SKIP LOCKED: any available row nobody has locked.
SelectAvailable(r) ==
  LET free == {c \in Coupons : /\ BookOf[c] = req[r].book
                               /\ status[c] = "available"
                               /\ couponLock[c] = NoRequest}
  IN /\ pc[r] = "select" /\ req[r].op = "assignRandom"
     /\ \/ /\ free = {}
           /\ Rollback(r, "rejected")
           /\ UNCHANGED <<target, seen>>
        \/ \E c \in free :
             /\ LockCoupon(r, c)
             /\ target' = [target EXCEPT ![r] = c]
             /\ seen' = [seen EXCEPT ![r].status = "available"]
             /\ Goto(r, "write")
             /\ UNCHANGED <<storeVars, bookLock, committed>>
     /\ UNCHANGED <<req, redisVars>>

\* FOR UPDATE NOWAIT of the row by id.  What it returns is not looked at, so
\* seen keeps the status FindCoupon read.  No code deletes a coupon.
SelectForAssignment(r) ==
  /\ pc[r] = "select" /\ req[r].op = "assignSpecific"
  /\ \/ couponLock[target[r]] # NoRequest /\ Rollback(r, "serverError")
     \/ /\ couponLock[target[r]] = NoRequest
        /\ LockCoupon(r, target[r])
        /\ Goto(r, "write")
        /\ UNCHANGED <<storeVars, bookLock, committed>>
  /\ UNCHANGED <<req, target, seen, redisVars>>

\* What lock, unlock and redeem read of the rows they join.
ReadRows(r, c) ==
  /\ target' = [target EXCEPT ![r] = c]
  /\ seen' = [seen EXCEPT ![r] =
                [status |-> status[c], version |-> version[c],
                 count |-> redemptionCount[c][req[r].user]]]
  /\ Goto(r, "write")
  /\ UNCHANGED <<storeVars, committed>>

\* The join is empty: no such code, or not assigned to the caller.
SelectNothing(r) ==
  /\ pc[r] = "select" /\ req[r].op \in {"lock", "unlock", "redeem"}
  /\ ~Assigned(req[r].code, req[r].user)
  /\ Rollback(r, "notFound")
  /\ UNCHANGED <<req, target, seen, redisVars>>

\* FOR UPDATE NOWAIT of the coupon and the caller's assignment.
SelectForLock(r) ==
  LET c == req[r].code
  IN /\ pc[r] = "select" /\ req[r].op = "lock" /\ Assigned(c, req[r].user)
     /\ \/ /\ couponLock[c] # NoRequest
           /\ Rollback(r, "serverError")
           /\ UNCHANGED <<target, seen>>
        \/ /\ couponLock[c] = NoRequest
           /\ LockCoupon(r, c) /\ UNCHANGED bookLock
           /\ ReadRows(r, c)
     /\ UNCHANGED <<req, redisVars>>

\* FOR UPDATE without NOWAIT: the statement waits until the row is free.
SelectForUnlock(r) ==
  LET c == req[r].code
  IN /\ pc[r] = "select" /\ req[r].op = "unlock" /\ Assigned(c, req[r].user)
     /\ couponLock[c] = NoRequest
     /\ LockCoupon(r, c) /\ UNCHANGED bookLock
     /\ ReadRows(r, c)
     /\ UNCHANGED <<req, redisVars>>

\* Slip: redeem reads without locking and relies on the version alone.
SelectUnlocked(r) ==
  /\ pc[r] = "select" /\ req[r].op = "redeem"
  /\ Assigned(req[r].code, req[r].user)
  /\ ReadRows(r, req[r].code)
  /\ UNCHANGED <<req, rowLocks, redisVars>>

\* The join of redeem names coupon_books too, so NOWAIT locks its row as well.
SelectForRedemption(r) ==
  LET c == req[r].code
      free == couponLock[c] = NoRequest /\ bookLock[BookOf[c]] = NoRequest
  IN /\ pc[r] = "select" /\ req[r].op = "redeem" /\ Assigned(c, req[r].user)
     /\ \/ ~free /\ Rollback(r, "serverError") /\ UNCHANGED <<target, seen>>
        \/ /\ free
           /\ LockCoupon(r, c)
           /\ bookLock' = [bookLock EXCEPT ![BookOf[c]] = r]
           /\ ReadRows(r, c)
     /\ UNCHANGED <<req, redisVars>>

-------------------------------------------------------------------------------
\* The checks and writes of each transaction, up to COMMIT.

\* Slip: an UPDATE that forgets the status.
TouchCoupon(c, s) ==
  /\ version' = [version EXCEPT ![c] = @ + 1]
  /\ UNCHANGED status

\* Every UPDATE bumps the version: TypeORM's update() because of the version
\* column, the statement of redeem by its own SET clause.
UpdateCoupon(c, s) ==
  /\ status' = [status EXCEPT ![c] = s]
  /\ version' = [version EXCEPT ![c] = @ + 1]

\* The UPDATE of redeem names the version that was read.  When it matches no
\* row the handler does not notice, because TypeORM's query() answers an UPDATE
\* with the pair <<rows, number>>, which is never empty.
UpdateCouponVersion(c, v, s) ==
  IF version[c] = v THEN UpdateCoupon(c, s) ELSE UNCHANGED couponVars

\* Slip: the lock columns are set and never cleared.
KeepLockColumns(c, u, x) ==
  lockState' = IF x = "none" THEN lockState
               ELSE [lockState EXCEPT ![c][u] = x]

SetLockColumns(c, u, x) == lockState' = [lockState EXCEPT ![c][u] = x]

\* Slip: the assignment is saved under the coupon alone and replaces the other.
ReplaceAssignment(c, u) == assignees' = [assignees EXCEPT ![c] = {u}]

InsertAssignment(c, u) == assignees' = [assignees EXCEPT ![c] = @ \cup {u}]

\* A random assignment has no check of its own: its SELECT made it.
\* The unique pair (coupon, user) refuses a second row.
WriteAssignment(r) ==
  LET c == target[r]
      u == req[r].user
  IN /\ pc[r] = "write" /\ req[r].op \in {"assignRandom", "assignSpecific"}
     /\ \/ seen[r].status # "available" /\ Rollback(r, "rejected")
        \/ /\ seen[r].status = "available" /\ u \in assignees[c]
           /\ Rollback(r, "serverError")
        \/ /\ seen[r].status = "available" /\ u \notin assignees[c]
           /\ UpdateCoupon(c, "assigned")
           /\ InsertAssignment(c, u)
           /\ Commit(r)
           /\ UNCHANGED <<redemptionCount, lockState, bookVars>>
     /\ UNCHANGED <<req, target, seen, redisVars>>

\* A coupon that is locked already is locked again, with a new expiry.
WriteLock(r) ==
  LET c == target[r]
  IN /\ pc[r] = "write" /\ req[r].op = "lock"
     /\ \/ ~IsValidStatusForRedemption(seen[r].status) /\ Rollback(r, "rejected")
        \/ /\ IsValidStatusForRedemption(seen[r].status)
           /\ UpdateCoupon(c, "locked")
           /\ SetLockColumns(c, req[r].user, "active")
           /\ Commit(r)
           /\ UNCHANGED <<assignees, redemptionCount, bookVars>>
     /\ UNCHANGED <<req, target, seen, redisVars>>

WriteUnlock(r) ==
  LET c == target[r]
  IN /\ pc[r] = "write" /\ req[r].op = "unlock"
     /\ \/ seen[r].status # "locked" /\ Rollback(r, "rejected")
        \/ /\ seen[r].status = "locked"
           /\ UpdateCoupon(c, "assigned")
           /\ SetLockColumns(c, req[r].user, "none")
           /\ Commit(r)
           /\ UNCHANGED <<assignees, redemptionCount, bookVars>>
     /\ UNCHANGED <<req, target, seen, redisVars>>

CanRedeem(r) ==
  /\ IsValidStatusForRedemption(seen[r].status)
  /\ ~ReachedLimit(seen[r].count, MaxRedemptions[BookOf[target[r]]])

WriteRedemption(r) ==
  LET c == target[r]
      newCount == seen[r].count + 1
  IN /\ pc[r] = "write" /\ req[r].op = "redeem"
     /\ \/ ~CanRedeem(r) /\ Rollback(r, "rejected")
        \/ /\ CanRedeem(r)
           /\ UpdateCouponVersion(c, seen[r].version,
                StatusAfterRedemption(newCount, MaxRedemptions[BookOf[c]]))
           /\ redemptionCount' =
                [redemptionCount EXCEPT ![c][req[r].user] = newCount]
           /\ SetLockColumns(c, req[r].user, "none")
           /\ Commit(r)
           /\ UNCHANGED <<assignees, bookVars>>
     /\ UNCHANGED <<req, target, seen, redisVars>>

-------------------------------------------------------------------------------
\* Redis, as the handlers of lock and redeem use it.

\* checkAndSetRedemptionDedup is two commands with an await between them.
HasDedup(r) ==
  /\ pc[r] = "hasDedup"
  /\ \/ DedupKey(r) \in dedup /\ Reply(r, "conflict")
     \/ DedupKey(r) \notin dedup /\ Goto(r, "setDedup")
  /\ UNCHANGED <<storeVars, req, target, seen, rowLocks, redisVars, committed>>

SetDedup(r) ==
  /\ pc[r] = "setDedup"
  /\ dedup' = dedup \cup {DedupKey(r)}
  /\ Goto(r, "acquire")
  /\ UNCHANGED <<storeVars, req, target, seen, rowLocks, redisLocks, committed>>

\* SET NX EX.
AcquireLock(r) ==
  /\ pc[r] = "acquire"
  /\ \/ LockKey(r) \in redisLocks /\ Reply(r, "conflict") /\ UNCHANGED redisLocks
     \/ /\ LockKey(r) \notin redisLocks
        /\ redisLocks' = redisLocks \cup {LockKey(r)}
        /\ Goto(r, "select")
  /\ UNCHANGED <<storeVars, req, target, seen, rowLocks, dedup, committed>>

\* The finally block deletes the key, whoever set it last.
ReleaseLock(r) ==
  /\ pc[r] = "release"
  /\ redisLocks' = redisLocks \ {LockKey(r)}
  /\ Goto(r, "done")
  /\ UNCHANGED <<storeVars, req, target, seen, rowLocks, dedup, committed>>

\* A command fails after its retries, or was applied and its reply lost: then
\* the retry of SET NX finds the handler's own key and acquireLock says no.
\* Only releaseLock swallows the error.
CacheFailure(r) ==
  /\ "redis" \in Events
  /\ \/ /\ pc[r] = "hasDedup" /\ Reply(r, "serverError")
        /\ UNCHANGED redisVars
     \/ /\ pc[r] = "setDedup" /\ Reply(r, "serverError")
        /\ dedup' \in {dedup, dedup \cup {DedupKey(r)}}
        /\ UNCHANGED redisLocks
     \/ /\ pc[r] = "acquire" /\ Reply(r, "conflict")
        /\ redisLocks' \in {redisLocks, redisLocks \cup {LockKey(r)}}
        /\ UNCHANGED dedup
     \/ /\ pc[r] = "release" /\ Goto(r, "done")
        /\ UNCHANGED redisVars
  /\ UNCHANGED <<storeVars, req, target, seen, rowLocks, committed>>

\* A request between its SET NX and its DEL.
InCriticalSection(r) ==
  /\ req[r].op \in {"lock", "redeem"}
  /\ pc[r] \in {"select", "write", "release"}

\* Slip: SET NX without EX.
NeverExpires(k) == FALSE

ExpireLock(k) ==
  /\ k \in redisLocks
  /\ \/ "ttl" \in Events
     \/ \A r \in Requests : InCriticalSection(r) => LockKey(r) # k
  /\ redisLocks' = redisLocks \ {k}
  /\ UNCHANGED <<storeVars, handlerVars, rowLocks, dedup, committed>>

ExpireDedup(k) ==
  /\ "dedupTtl" \in Events
  /\ k \in dedup
  /\ dedup' = dedup \ {k}
  /\ UNCHANGED <<storeVars, handlerVars, rowLocks, redisLocks, committed>>

-------------------------------------------------------------------------------
\* Failures, the clock and the administrator.

\* A statement outside a transaction fails, or one inside it does.
DatabaseFailure(r) ==
  /\ "abort" \in Events
  /\ \/ /\ pc[r] \in {"findBook", "findCoupon", "checkLimit"}
        /\ Reply(r, "serverError")
        /\ UNCHANGED <<storeVars, rowLocks, committed>>
     \/ /\ pc[r] \in {"select", "write"}
        /\ Rollback(r, "serverError")
  /\ UNCHANGED <<req, target, seen, redisVars>>

\* The moment PostgreSQL notices that the connection of a dead process is gone.
\* The Redis keys of the request stay.
Crash(r) ==
  /\ "crash" \in Events
  /\ pc[r] \notin {"done", "crashed"}
  /\ pc' = [pc EXCEPT ![r] = "crashed"]
  /\ couponLock' = [c \in Coupons |-> IF couponLock[c] = r THEN NoRequest
                                                           ELSE couponLock[c]]
  /\ bookLock' = [b \in Books |-> IF bookLock[b] = r THEN NoRequest
                                                     ELSE bookLock[b]]
  /\ UNCHANGED <<storeVars, req, resp, target, seen, redisVars, committed>>

\* The UPDATE of deactivateCouponBook waits for the row of the book.
DeactivateBook(b) ==
  /\ "deactivate" \in Events
  /\ bookActive[b] /\ bookLock[b] = NoRequest
  /\ bookActive' = [bookActive EXCEPT ![b] = FALSE]
  /\ UNCHANGED <<couponVars, assignmentVars, bookPhase, handlerVars, rowLocks,
                 redisVars, committed>>

Clock ==
  /\ "clock" \in Events
  /\ \/ \E b \in Books : BookClock(b)
     \/ \E c \in Coupons, u \in Users : LapseLock(c, u)
  /\ UNCHANGED <<handlerVars, rowLocks, redisVars, committed>>

-------------------------------------------------------------------------------
Select(r) ==
  \/ SelectAvailable(r) \/ SelectForAssignment(r) \/ SelectNothing(r)
  \/ SelectForLock(r) \/ SelectForUnlock(r) \/ SelectForRedemption(r)

Write(r) ==
  \/ WriteAssignment(r) \/ WriteLock(r) \/ WriteUnlock(r) \/ WriteRedemption(r)

\* What the handler of a request does while nothing fails.
Handler(r) ==
  \/ FindBook(r) \/ FindCoupon(r) \/ CheckUserAssignmentLimit(r)
  \/ HasDedup(r) \/ SetDedup(r) \/ AcquireLock(r) \/ ReleaseLock(r)
  \/ Select(r) \/ Write(r)

Failure(r) == CacheFailure(r) \/ DatabaseFailure(r) \/ Crash(r)

Environment ==
  \/ \E k \in redisLocks : ExpireLock(k)
  \/ \E k \in dedup : ExpireDedup(k)
  \/ \E b \in Books : DeactivateBook(b)
  \/ Clock

Next ==
  \/ \E r \in Requests : Handler(r) \/ Failure(r)
  \/ Environment

Spec == Init /\ [][Next]_vars

\* The event loop resumes every handler whose await has ended; Redis drops a
\* key once its TTL is over.
Fairness ==
  /\ \A r \in Requests : WF_vars(Handler(r))
  /\ \A k \in LockKeys : WF_vars(ExpireLock(k))
  /\ \A k \in Codes \X Users : WF_vars(ExpireDedup(k))

FairSpec == Spec /\ Fairness
===============================================================================
