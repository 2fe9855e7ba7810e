------------------------- MODULE CouponsServiceProofs -------------------------
(***************************************************************************)
(* Proofs about CouponsService for every number of users, coupons, books   *)
(* and requests, every set of calls and every set of events.               *)
(***************************************************************************)
EXTENDS CouponsServiceProperties, FiniteSetTheorems, TLAPS

-------------------------------------------------------------------------------
\* Type correctness.

\* The keys a handler builds are keys of the cache.
LEMMA KeysTyped ==
  ASSUME TypeOK, NEW r \in Requests
  PROVE  DedupKey(r) \in Codes \X Users /\ LockKey(r) \in LockKeys
<1>1. req[r].code \in Codes /\ req[r].user \in Users
  BY RequestAssumption DEF TypeOK
<1>2. CASE req[r].op = "redeem"
  BY <1>1, <1>2 DEF DedupKey, LockKey, LockKeys
<1>3. CASE req[r].op # "redeem"
  BY <1>1, <1>3 DEF DedupKey, LockKey, LockKeys
<1> QED BY <1>2, <1>3

LEMMA InitType == Init => TypeOK
<1> SUFFICES ASSUME Init PROVE TypeOK OBVIOUS
<1> USE DEF Init, StoreInit
<1>1. StoreType
  <2>1. assignees \in [Coupons -> SUBSET Users]
    OBVIOUS
  <2>2. status \in [Coupons -> CouponStatus]
    BY DEF CouponStatus
  <2>6. version \in [Coupons -> Nat \ {0}]
    <3>1. 1 \in Nat \ {0} /\ 2 \in Nat \ {0}
      OBVIOUS
    <3>2. version = [c \in Coupons |-> IF assignees[c] = {} THEN 1 ELSE 2]
      OBVIOUS
    <3> HIDE DEF Init, StoreInit
    <3> QED BY <3>1, <3>2, Zenon
  <2>3. redemptionCount \in [Coupons -> [Users -> Nat]]
    OBVIOUS
  <2>4. lockState \in [Coupons -> [Users -> LockState]]
    BY DEF LockState
  <2>5. bookActive \in [Books -> BOOLEAN] /\ bookPhase \in [Books -> BookPhase]
    BY DEF BookPhase
  <2> QED BY <2>1, <2>2, <2>3, <2>4, <2>5, <2>6 DEF StoreType
<1>2. pc \in [Requests -> PCs]
  <2>1. \A r \in Requests : req[r].op \in Ops
    BY RequestAssumption
  <2>2. \A op \in Ops : FirstStep(op) \in PCs
    BY DEF Ops, FirstStep, PCs
  <2> QED BY <2>1, <2>2
<1>3. seen \in [Requests -> [status : CouponStatus, version : Nat \ {0},
                             count : Nat]]
  BY DEF Nothing, CouponStatus
<1> QED BY <1>1, <1>2, <1>3 DEF TypeOK, Answers, Codes, LockKeys

\* Ending a transaction frees rows and moves the handler; the rest of TypeOK
\* is up to what the transaction wrote.
LEMMA EndTransactionType ==
  ASSUME TypeOK, NEW r \in Requests, NEW a \in Answers, EndTransaction(r, a)
  PROVE  /\ couponLock' \in [Coupons -> Requests \cup {NoRequest}]
         /\ bookLock' \in [Books -> Requests \cup {NoRequest}]
         /\ pc' \in [Requests -> PCs]
         /\ resp' \in [Requests -> Answers]
BY DEF TypeOK, EndTransaction, PCs, Answers

LEMMA RollbackType ==
  ASSUME TypeOK, NEW r \in Requests, NEW a \in Answers, Rollback(r, a),
         UNCHANGED <<req, target, seen, redisVars>>
  PROVE  TypeOK'
<1> USE DEF Rollback
<1>1. EndTransaction(r, a)
  OBVIOUS
<1>2. /\ couponLock' \in [Coupons -> Requests \cup {NoRequest}]
      /\ bookLock' \in [Books -> Requests \cup {NoRequest}]
      /\ pc' \in [Requests -> PCs]
      /\ resp' \in [Requests -> Answers]
  BY <1>1, EndTransactionType
<1> QED BY <1>2 DEF TypeOK, StoreType, storeVars, couponVars, assignmentVars,
                    bookVars, redisVars

LEMMA CommitType ==
  ASSUME TypeOK, NEW r \in Requests, Commit(r), StoreType',
         UNCHANGED <<req, target, seen, redisVars>>
  PROVE  TypeOK'
<1>1. PICK a \in Answers : EndTransaction(r, a)
  BY DEF Commit, Answers
<1>2. /\ couponLock' \in [Coupons -> Requests \cup {NoRequest}]
      /\ bookLock' \in [Books -> Requests \cup {NoRequest}]
      /\ pc' \in [Requests -> PCs]
      /\ resp' \in [Requests -> Answers]
  BY <1>1, EndTransactionType
<1>3. committed' \subseteq Requests
  BY DEF Commit, TypeOK
<1> QED BY <1>2, <1>3 DEF TypeOK, redisVars

LEMMA HandlerType ==
  ASSUME TypeOK, NEW r \in Requests, Handler(r)
  PROVE  TypeOK'
<1> USE DEF Reply, Goto, PCs, Answers, storeVars, couponVars, assignmentVars,
            bookVars, redisVars, rowLocks
<1>1. CASE FindBook(r)
  BY <1>1 DEF TypeOK, StoreType, FindBook, ValidateBook
<1>2. CASE FindCoupon(r)
  <2>1. target' \in [Requests -> Codes]
    BY <1>2 DEF TypeOK, FindCoupon, Codes
  <2>2. seen' \in [Requests -> [status : CouponStatus, version : Nat \ {0},
                                count : Nat]]
    <3>1. CASE req[r].code \in Coupons
      <4>1. status[req[r].code] \in CouponStatus
        BY <3>1 DEF TypeOK, StoreType
      <4>2. seen' = [seen EXCEPT ![r] =
                       [seen[r] EXCEPT !.status = status[req[r].code]]]
        BY <1>2, <3>1 DEF FindCoupon
      <4> QED BY <4>1, <4>2 DEF TypeOK
    <3>2. CASE req[r].code \notin Coupons
      BY <1>2, <3>2 DEF TypeOK, FindCoupon
    <3> QED BY <3>1, <3>2
  <2> QED BY <1>2, <2>1, <2>2 DEF TypeOK, StoreType, FindCoupon, ValidateBook
<1>3. CASE CheckUserAssignmentLimit(r)
  BY <1>3 DEF TypeOK, StoreType, CheckUserAssignmentLimit
<1>4. CASE HasDedup(r)
  BY <1>4 DEF TypeOK, StoreType, HasDedup
<1>5. CASE SetDedup(r)
  BY <1>5, KeysTyped DEF TypeOK, StoreType, SetDedup
<1>6. CASE AcquireLock(r)
  <2>1. LockKey(r) \in LockKeys
    BY KeysTyped
  <2>2. redisLocks' \subseteq LockKeys
    BY <1>6, <2>1 DEF TypeOK, AcquireLock
  <2> QED BY <1>6, <2>2 DEF TypeOK, StoreType, AcquireLock
<1>7. CASE ReleaseLock(r)
  BY <1>7 DEF TypeOK, StoreType, ReleaseLock
<1>8. CASE SelectAvailable(r)
  <2>1. CASE Rollback(r, "rejected") /\ UNCHANGED <<target, seen>>
    BY <1>8, <2>1, RollbackType DEF SelectAvailable
  <2>2. CASE ~(Rollback(r, "rejected") /\ UNCHANGED <<target, seen>>)
    <3>1. PICK c \in Coupons :
            /\ LockCoupon(r, c)
            /\ target' = [target EXCEPT ![r] = c]
            /\ seen' = [seen EXCEPT ![r].status = "available"]
            /\ Goto(r, "write")
            /\ UNCHANGED <<storeVars, bookLock, committed>>
      BY <1>8, <2>2 DEF SelectAvailable
    <3>2. couponLock' \in [Coupons -> Requests \cup {NoRequest}]
      BY <3>1 DEF TypeOK, LockCoupon
    <3>3. target' \in [Requests -> Codes]
      BY <3>1 DEF TypeOK, Codes
    <3>4. seen' \in [Requests -> [status : CouponStatus, version : Nat \ {0},
                                  count : Nat]]
      <4>1. "available" \in CouponStatus
        BY DEF CouponStatus
      <4>2. seen' = [seen EXCEPT ![r] = [seen[r] EXCEPT !.status = "available"]]
        BY <3>1
      <4> QED BY <4>1, <4>2 DEF TypeOK
    <3>5. UNCHANGED <<req, redisVars>>
      BY <1>8 DEF SelectAvailable
    <3> QED BY <3>1, <3>2, <3>3, <3>4, <3>5 DEF TypeOK, StoreType
  <2> QED BY <2>1, <2>2
<1>9. CASE SelectForAssignment(r)
  <2>1. CASE Rollback(r, "serverError")
    BY <1>9, <2>1, RollbackType DEF SelectForAssignment
  <2>2. CASE ~Rollback(r, "serverError")
    <3>1. /\ LockCoupon(r, target[r])
          /\ Goto(r, "write")
          /\ UNCHANGED <<storeVars, bookLock, committed>>
          /\ UNCHANGED <<req, target, seen, redisVars>>
      BY <1>9, <2>2 DEF SelectForAssignment
    <3> QED BY <3>1 DEF LockCoupon, TypeOK, StoreType
  <2> QED BY <2>1, <2>2
<1>10. CASE SelectNothing(r)
  BY <1>10, RollbackType DEF SelectNothing
<1>11. ASSUME NEW c \in Coupons, ReadRows(r, c), LockCoupon(r, c),
              \/ UNCHANGED bookLock
              \/ bookLock' = [bookLock EXCEPT ![BookOf[c]] = r],
              UNCHANGED <<req, redisVars>>
       PROVE  TypeOK'
  <2>1. req[r].user \in Users
    BY RequestAssumption DEF TypeOK
  <2>2. seen' \in [Requests -> [status : CouponStatus, version : Nat \ {0},
                                count : Nat]]
    <3>1. status[c] \in CouponStatus /\ version[c] \in Nat \ {0}
            /\ redemptionCount[c][req[r].user] \in Nat
      BY <2>1 DEF TypeOK, StoreType
    <3> QED BY <1>11, <3>1 DEF ReadRows, TypeOK
  <2>3. target' \in [Requests -> Codes]
    BY <1>11 DEF ReadRows, TypeOK, Codes
  <2>4. /\ couponLock' \in [Coupons -> Requests \cup {NoRequest}]
        /\ bookLock' \in [Books -> Requests \cup {NoRequest}]
    BY <1>11 DEF LockCoupon, TypeOK
  <2> QED BY <1>11, <2>2, <2>3, <2>4 DEF ReadRows, TypeOK, StoreType
<1>12. CASE SelectForLock(r)
  <2>1. CASE Rollback(r, "serverError") /\ UNCHANGED <<target, seen>>
    BY <1>12, <2>1, RollbackType DEF SelectForLock
  <2>2. CASE ~(Rollback(r, "serverError") /\ UNCHANGED <<target, seen>>)
    <3>1. /\ req[r].code \in Coupons
          /\ LockCoupon(r, req[r].code)
          /\ UNCHANGED bookLock
          /\ ReadRows(r, req[r].code)
          /\ UNCHANGED <<req, redisVars>>
      BY <1>12, <2>2 DEF SelectForLock, Assigned
    <3> QED BY <1>11, <3>1
  <2> QED BY <2>1, <2>2
<1>13. CASE SelectForUnlock(r)
  BY <1>11, <1>13 DEF SelectForUnlock, Assigned
<1>14. CASE SelectForRedemption(r)
  <2>1. CASE Rollback(r, "serverError") /\ UNCHANGED <<target, seen>>
    BY <1>14, <2>1, RollbackType DEF SelectForRedemption
  <2>2. CASE ~(Rollback(r, "serverError") /\ UNCHANGED <<target, seen>>)
    BY <1>11, <1>14, <2>2 DEF SelectForRedemption, Assigned
  <2> QED BY <2>1, <2>2
<1>15. ASSUME NEW c, NEW s \in CouponStatus, UpdateCoupon(c, s)
       PROVE  status' \in [Coupons -> CouponStatus]
                /\ version' \in [Coupons -> Nat \ {0}]
  <2>1. status' \in [Coupons -> CouponStatus]
    BY <1>15 DEF UpdateCoupon, TypeOK, StoreType
  <2>2. \A n \in Nat \ {0} : n + 1 \in Nat \ {0}
    OBVIOUS
  <2>3. version' \in [Coupons -> Nat \ {0}]
    BY <1>15, <2>2 DEF UpdateCoupon, TypeOK, StoreType
  <2> QED BY <2>1, <2>3
<1>16. CASE WriteAssignment(r)
  <2>1. CASE \E a \in Answers : Rollback(r, a)
    BY <1>16, <2>1, RollbackType DEF WriteAssignment
  <2>2. CASE ~\E a \in Answers : Rollback(r, a)
    <3>1. /\ UpdateCoupon(target[r], "assigned")
          /\ assignees' = [assignees EXCEPT ![target[r]] = @ \cup {req[r].user}]
          /\ Commit(r)
          /\ UNCHANGED <<redemptionCount, lockState, bookVars>>
          /\ UNCHANGED <<req, target, seen, redisVars>>
      BY <1>16, <2>2 DEF WriteAssignment, InsertAssignment
    <3>2. assignees' \in [Coupons -> SUBSET Users]
      <4>1. req[r].user \in Users
        BY RequestAssumption DEF TypeOK
      <4> QED BY <3>1, <4>1 DEF TypeOK, StoreType
    <3>3. StoreType'
      BY <1>15, <3>1, <3>2 DEF TypeOK, StoreType, CouponStatus
    <3> QED BY <3>1, <3>3, CommitType
  <2> QED BY <2>1, <2>2
<1>17. ASSUME NEW c, NEW x \in LockState,
              SetLockColumns(c, req[r].user, x)
       PROVE  lockState' \in [Coupons -> [Users -> LockState]]
  BY <1>17 DEF SetLockColumns, TypeOK, StoreType
<1>18. CASE WriteLock(r)
  <2>1. CASE Rollback(r, "rejected")
    BY <1>18, <2>1, RollbackType DEF WriteLock
  <2>2. CASE ~Rollback(r, "rejected")
    <3>1. /\ UpdateCoupon(target[r], "locked")
          /\ SetLockColumns(target[r], req[r].user, "active")
          /\ Commit(r)
          /\ UNCHANGED <<assignees, redemptionCount, bookVars>>
          /\ UNCHANGED <<req, target, seen, redisVars>>
      BY <1>18, <2>2 DEF WriteLock
    <3>2. StoreType'
      BY <1>15, <1>17, <3>1 DEF TypeOK, StoreType, CouponStatus, LockState
    <3> QED BY <3>1, <3>2, CommitType
  <2> QED BY <2>1, <2>2
<1>19. CASE WriteUnlock(r)
  <2>1. CASE Rollback(r, "rejected")
    BY <1>19, <2>1, RollbackType DEF WriteUnlock
  <2>2. CASE ~Rollback(r, "rejected")
    <3>1. /\ UpdateCoupon(target[r], "assigned")
          /\ SetLockColumns(target[r], req[r].user, "none")
          /\ Commit(r)
          /\ UNCHANGED <<assignees, redemptionCount, bookVars>>
          /\ UNCHANGED <<req, target, seen, redisVars>>
      BY <1>19, <2>2 DEF WriteUnlock
    <3>2. StoreType'
      BY <1>15, <1>17, <3>1 DEF TypeOK, StoreType, CouponStatus, LockState
    <3> QED BY <3>1, <3>2, CommitType
  <2> QED BY <2>1, <2>2
<1>20. CASE WriteRedemption(r)
  <2> DEFINE newCount == seen[r].count + 1
             newStatus == StatusAfterRedemption(newCount,
                            MaxRedemptions[BookOf[target[r]]])
  <2>1. CASE Rollback(r, "rejected")
    BY <1>20, <2>1, RollbackType DEF WriteRedemption
  <2>2. CASE ~Rollback(r, "rejected")
    <3>1. /\ \/ UpdateCoupon(target[r], newStatus)
             \/ UNCHANGED couponVars
          /\ redemptionCount' =
               [redemptionCount EXCEPT ![target[r]][req[r].user] = newCount]
          /\ SetLockColumns(target[r], req[r].user, "none")
          /\ Commit(r)
          /\ UNCHANGED <<assignees, bookVars>>
          /\ UNCHANGED <<req, target, seen, redisVars>>
      BY <1>20, <2>2 DEF WriteRedemption, UpdateCouponVersion
    <3>2. newStatus \in CouponStatus
      BY DEF StatusAfterRedemption, CouponStatus
    <3>3. status' \in [Coupons -> CouponStatus]
            /\ version' \in [Coupons -> Nat \ {0}]
      <4> HIDE DEF newStatus
      <4> QED BY <1>15, <3>1, <3>2 DEF TypeOK, StoreType
    <3>4. redemptionCount' \in [Coupons -> [Users -> Nat]]
      <4>1. newCount \in Nat
        BY DEF TypeOK
      <4> HIDE DEF newCount
      <4> QED BY <3>1, <4>1 DEF TypeOK, StoreType
    <3>5. lockState' \in [Coupons -> [Users -> LockState]]
      BY <1>17, <3>1 DEF LockState
    <3>6. StoreType'
      BY <3>1, <3>3, <3>4, <3>5 DEF TypeOK, StoreType
    <3> QED BY <3>1, <3>6, CommitType
  <2> QED BY <2>1, <2>2
<1> QED
  BY <1>1, <1>2, <1>3, <1>4, <1>5, <1>6, <1>7, <1>8, <1>9, <1>10, <1>12, <1>13,
     <1>14, <1>16, <1>18, <1>19, <1>20 DEF Handler, Select, Write

LEMMA FailureType ==
  ASSUME TypeOK, NEW r \in Requests, Failure(r)
  PROVE  TypeOK'
<1> USE DEF Reply, Goto, PCs, Answers, storeVars, couponVars, assignmentVars,
            bookVars, redisVars, rowLocks
<1>1. CASE CacheFailure(r)
  <2>1. DedupKey(r) \in Codes \X Users /\ LockKey(r) \in LockKeys
    BY KeysTyped
  <2>2. dedup' \subseteq Codes \X Users /\ redisLocks' \subseteq LockKeys
    BY <1>1, <2>1 DEF TypeOK, CacheFailure
  <2> QED BY <1>1, <2>2 DEF TypeOK, StoreType, CacheFailure
<1>2. CASE DatabaseFailure(r)
  <2>1. CASE Rollback(r, "serverError")
    BY <1>2, <2>1, RollbackType DEF DatabaseFailure
  <2>2. CASE ~Rollback(r, "serverError")
    BY <1>2, <2>2 DEF TypeOK, StoreType, DatabaseFailure
  <2> QED BY <2>1, <2>2
<1>3. CASE Crash(r)
  BY <1>3 DEF TypeOK, StoreType, Crash
<1> QED BY <1>1, <1>2, <1>3 DEF Failure

LEMMA EnvironmentType == TypeOK /\ Environment => TypeOK'
<1> SUFFICES ASSUME TypeOK, Environment PROVE TypeOK' OBVIOUS
<1> USE DEF storeVars, couponVars, assignmentVars, bookVars, handlerVars,
            redisVars, rowLocks
<1>1. ASSUME NEW k \in redisLocks, ExpireLock(k) PROVE TypeOK'
  BY <1>1 DEF TypeOK, StoreType, ExpireLock
<1>2. ASSUME NEW k \in dedup, ExpireDedup(k) PROVE TypeOK'
  BY <1>2 DEF TypeOK, StoreType, ExpireDedup
<1>3. ASSUME NEW b \in Books, DeactivateBook(b) PROVE TypeOK'
  BY <1>3 DEF TypeOK, StoreType, DeactivateBook
<1>4. CASE Clock
  <2>1. ASSUME NEW b \in Books, BookClock(b) PROVE TypeOK'
    BY <1>4, <2>1 DEF TypeOK, StoreType, Clock, BookClock, BookPhase
  <2>2. ASSUME NEW c \in Coupons, NEW u \in Users, LapseLock(c, u) PROVE TypeOK'
    BY <1>4, <2>2 DEF TypeOK, StoreType, Clock, LapseLock, LockState
  <2> QED BY <1>4, <2>1, <2>2 DEF Clock
<1> QED BY <1>1, <1>2, <1>3, <1>4 DEF Environment

LEMMA NextType == TypeOK /\ [Next]_vars => TypeOK'
<1> SUFFICES ASSUME TypeOK, [Next]_vars PROVE TypeOK' OBVIOUS
<1>1. ASSUME NEW r \in Requests, Handler(r) PROVE TypeOK'
  BY <1>1, HandlerType
<1>2. ASSUME NEW r \in Requests, Failure(r) PROVE TypeOK'
  BY <1>2, FailureType
<1>3. CASE Environment
  BY <1>3, EnvironmentType
<1>4. CASE UNCHANGED vars
  BY <1>4 DEF TypeOK, StoreType, vars, storeVars, couponVars, assignmentVars,
              bookVars, handlerVars, redisVars, rowLocks
<1> QED BY <1>1, <1>2, <1>3, <1>4 DEF Next

\* Every reachable state is well typed: in particular a row lock belongs to a
\* request or to nobody and a version never returns to zero.
THEOREM TypeCorrect == Spec => []TypeOK
<1>1. Init => TypeOK
  BY InitType
<1>2. TypeOK /\ [Next]_vars => TypeOK'
  BY NextType
<1> QED BY <1>1, <1>2, PTL DEF Spec
===============================================================================
