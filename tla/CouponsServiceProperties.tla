----------------------- MODULE CouponsServiceProperties -----------------------
(***************************************************************************)
(* What the coupon service must keep true, apart from how it works.  Each  *)
(* property says which calls and which events it is about; the             *)
(* configurations make exactly those possible.                             *)
(***************************************************************************)
EXTENDS CouponsService

\* Every variable keeps its type; a lock key belongs to a code and a user.
TypeOK ==
  /\ StoreType
  /\ req \in [Requests -> Calls]
  /\ pc \in [Requests -> PCs]
  /\ resp \in [Requests -> Answers]
  /\ target \in [Requests -> Codes]
  /\ seen \in [Requests -> [status : CouponStatus, version : Nat \ {0},
                            count : Nat]]
  /\ couponLock \in [Coupons -> Requests \cup {NoRequest}]
  /\ bookLock \in [Books -> Requests \cup {NoRequest}]
  /\ dedup \subseteq Codes \X Users
  /\ redisLocks \subseteq LockKeys
  /\ committed \subseteq Requests

-------------------------------------------------------------------------------
\* Under any calls and any events.

\* No user redeems a coupon more often than its book allows, however calls
\* interleave, whatever fails, and even when Redis loses every flag and lock.
RedemptionLimit ==
  \A c \in Coupons, u \in Users :
    LET max == MaxRedemptions[BookOf[c]]
    IN max # NoLimit => redemptionCount[c][u] <= max

RedemptionsOf(c, u) ==
  {r \in committed : req[r].op = "redeem" /\ req[r].code = c /\ req[r].user = u}

\* Every committed redemption is counted, and counted once: two transactions
\* that read the same redemption_count never both write their successor.
NoLostRedemption ==
  \A c \in Coupons, u \in Users :
    redemptionCount[c][u] = Cardinality(RedemptionsOf(c, u))

\* A coupon offered to the next random assignment belongs to nobody: no
\* sequence of assignments, unlocks and redemptions makes it available again.
AvailableMeansUnassigned ==
  \A c \in Coupons : status[c] = "available" => assignees[c] = {}

\* What redeem, lock and unlock read under their row locks is still true when
\* they write, so the version test of redeem never fails; what a random
\* assignment picked is still available.
SnapshotStillFresh ==
  \A r \in Requests :
    LET c == target[r]
    IN pc[r] = "write" =>
         /\ req[r].op \in {"lock", "unlock", "redeem"} =>
              seen[r] = [status |-> status[c], version |-> version[c],
                         count |-> redemptionCount[c][req[r].user]]
         /\ req[r].op = "assignRandom" => status[c] = "available"

\* A row is locked exactly while the transaction that locked it is open: no
\* error path, failure or crash leaves a row locked or lets one go early.
RowsLockedByOpenTransactions ==
  /\ \A c \in Coupons, r \in Requests :
       couponLock[c] = r <=> pc[r] = "write" /\ target[r] = c
  /\ \A b \in Books, r \in Requests :
       bookLock[b] = r <=> /\ pc[r] = "write" /\ req[r].op = "redeem"
                           /\ BookOf[target[r]] = b

\* The service implements the ledger: assignments are only added, a count only
\* grows by one, only for a user the coupon is assigned to, and only below the
\* limit of its book.
Ledger ==
  INSTANCE RedemptionLedger
    WITH Allowance <- [c \in Coupons |-> MaxRedemptions[BookOf[c]]],
         Unlimited <- NoLimit, holders <- assignees, used <- redemptionCount

ImplementsLedger == Ledger!Spec

-------------------------------------------------------------------------------
\* The inductive invariant: the properties above and what they rest on.

\* What a handler knows at each point of its way.
OnItsWay(r) ==
  /\ pc[r] = "findBook" => req[r].op = "assignRandom"
  /\ pc[r] = "findCoupon" => req[r].op = "assignSpecific"
  /\ pc[r] = "checkLimit" => req[r].op \in {"assignRandom", "assignSpecific"}
  /\ pc[r] \in {"hasDedup", "setDedup"} => req[r].op = "redeem"
  /\ pc[r] \in {"acquire", "release"} => req[r].op \in {"lock", "redeem"}
  /\ req[r].op = "assignSpecific" /\ pc[r] \in {"checkLimit", "select"} =>
       target[r] \in Coupons
  /\ pc[r] = "write" => target[r] \in Coupons
  /\ pc[r] = "write" /\ req[r].op \in {"lock", "unlock", "redeem"} =>
       target[r] = req[r].code /\ req[r].user \in assignees[target[r]]

\* A transaction commits once, as the last thing it does.
CommitIsLast ==
  \A r \in committed : pc[r] \in {"release", "done", "crashed"}

CoreInv ==
  /\ TypeOK
  /\ \A r \in Requests : OnItsWay(r)
  /\ RowsLockedByOpenTransactions
  /\ SnapshotStillFresh
  /\ AvailableMeansUnassigned
  /\ RedemptionLimit
  /\ CommitIsLast /\ IsFiniteSet(committed)
  /\ NoLostRedemption

-------------------------------------------------------------------------------
\* Calls kept apart.  No code keeps them apart: these are the overlaps that the
\* handlers leave open, between what they check and what they write.

\* The book of an assignment is named by the call or by the coupon.
BookOfAssignment(r) ==
  IF req[r].op = "assignRandom" THEN req[r].book ELSE BookOf[target[r]]

\* assignSpecificCoupon between its reading of the coupon and its commit.
ByCode(r) ==
  req[r].op = "assignSpecific" /\ pc[r] \in {"checkLimit", "select", "write"}

Assigning(r) == ByCode(r) \/ (req[r].op = "assignRandom" /\ pc[r] = "write")

\* Either assignment between its count of the user's coupons and its commit.
Counted(r) ==
  /\ req[r].op \in {"assignRandom", "assignSpecific"}
  /\ pc[r] \in {"select", "write"}
  /\ MaxAssignments[BookOfAssignment(r)] # NoLimit

\* No assignment of a coupon overlaps another one that names its code.
CodesApart ==
  \A r, q \in Requests :
    r # q /\ ByCode(r) /\ Assigning(q) => target[r] # target[q]

\* No user is counted twice at a time for one book with a limit.
CountsApart ==
  \A r, q \in Requests :
    r # q /\ Counted(r) /\ Counted(q) /\ req[r].user = req[q].user =>
      BookOfAssignment(r) # BookOfAssignment(q)

\* No two redemptions of a coupon by a user stand between hasDedup and setDedup.
DedupsApart ==
  \A r, q \in Requests :
    r # q /\ pc[r] = "setDedup" /\ pc[q] = "setDedup" => DedupKey(r) # DedupKey(q)

ApartSpec == Init /\ [][Next /\ CodesApart' /\ CountsApart']_vars

-------------------------------------------------------------------------------
\* While CodesApart; assignments at random never overlap like that.

\* No coupon is handed out twice, to two random assignments or to one at random
\* and a later one by code.
SoleAssignee == \A c \in Coupons : Cardinality(assignees[c]) <= 1

\* The answers of the two query endpoints never contradict each other or
\* themselves: a coupon is shown as redeemed exactly when its assignee has no
\* redemption left, one with a running lock is shown as locked, and the list
\* counts as redeemed the coupons the status endpoint has nothing left for.
RedeemedMeansUsedUp ==
  \A u \in Users :
    LET answer(c) == CouponStatusResponse(c, u)
        used == {c \in Coupons : /\ answer(c).isAssignedToUser
                                 /\ answer(c).redemptionsRemaining = 0}
    IN /\ \A c \in Coupons : answer(c).isAssignedToUser =>
            /\ answer(c).status = "redeemed" <=> answer(c).redemptionsRemaining = 0
            /\ answer(c).isLocked => answer(c).status = "locked"
       /\ UserCouponsResponse(u).redeemedCoupons = Cardinality(used)
       /\ UserCouponsResponse(u).availableCoupons
            = UserCouponsResponse(u).totalCoupons - Cardinality(used)

\* Nothing a late lock, unlock or assignment does brings a redeemed coupon back.
RedeemedIsFinal ==
  [][\A c \in Coupons : status[c] = "redeemed" => status'[c] = "redeemed"]_vars

\* The status of the coupon and the lock columns of the assignment, written by
\* two statements, agree: locked exactly when the assignee has lock columns.
LockColumnsAgree ==
  \A c \in Coupons :
    status[c] = "locked" <=> \E u \in assignees[c] : lockState[c][u] # "none"

-------------------------------------------------------------------------------
\* While Redis works and every request ends before the TTL of its lock: no
\* redis, ttl or crash event.

\* Every lock key belongs to exactly one request between its SET NX and its
\* DEL, so no path out of a handler forgets the key or deletes another's.
RedisLockHasOneOwner ==
  /\ \A k \in redisLocks :
       \E r \in Requests : InCriticalSection(r) /\ LockKey(r) = k
  /\ \A r1, r2 \in Requests :
       InCriticalSection(r1) /\ InCriticalSection(r2)
         /\ LockKey(r1) = LockKey(r2) => r1 = r2

-------------------------------------------------------------------------------
\* Liveness, under Fairness.

\* Every request is answered, or its process has died: no request waits for
\* ever, not even an unlock, whose SELECT waits for the row of the coupon.
EveryRequestEnds ==
  \A r \in Requests : <>(pc[r] \in {"done", "crashed"})

\* No Redis lock stays for ever, whichever process died or DEL failed: the
\* coupon can be locked and redeemed again.
RedisLocksEndUpFree ==
  \A k \in LockKeys : []<>(k \notin redisLocks)

-------------------------------------------------------------------------------
\* What the documentation says and the service does not do.

\* coupon-book.entity.ts: "Maximum number of coupons a single user can be
\* assigned from this book".  True while CountsApart.
AssignmentLimit ==
  \A b \in Books, u \in Users :
    MaxAssignments[b] # NoLimit =>
      Cardinality(HeldFrom(b, u)) <= MaxAssignments[b]

\* coupons.service.ts: "Deduplication to prevent double-submit".  While no
\* flag has expired, one redemption of a coupon by a user goes through.  True
\* while DedupsApart.
NoDoubleSubmit ==
  \A c \in Coupons, u \in Users : Cardinality(RedemptionsOf(c, u)) <= 1
===============================================================================
