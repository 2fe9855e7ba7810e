------------------------ MODULE CouponsInvariantProofs ------------------------
(***************************************************************************)
(* CoreInv is an invariant of Spec, and with it the safety properties of   *)
(* CouponsServiceProperties that hold for any calls and events.            *)
(*                                                                         *)
(* The actions come in five shapes, seen from the rows: a handler moves    *)
(* outside a transaction, takes its rows, ends without writing, or writes  *)
(* and commits; or the environment acts.  Each action has one of them, and *)
(* each part of the invariant is preserved by each of them.                *)
(***************************************************************************)
EXTENDS CouponsServiceProofs

Data == <<status, version, assignees, redemptionCount>>

OthersStay(r) ==
  /\ UNCHANGED req
  /\ \A q \in Requests \ {r} : pc'[q] = pc[q] /\ target'[q] = target[q]
                                 /\ seen'[q] = seen[q]

FreesRows(r) ==
  /\ couponLock' = [c \in Coupons |-> IF couponLock[c] = r THEN NoRequest
                                                           ELSE couponLock[c]]
  /\ bookLock' = [b \in Books |-> IF bookLock[b] = r THEN NoRequest
                                                     ELSE bookLock[b]]

Moves(r) ==
  /\ OthersStay(r) /\ UNCHANGED <<Data, couponLock, bookLock, committed>>
  /\ pc[r] \notin {"write", "done", "crashed"} /\ pc'[r] # "write"
  /\ pc[r] = "release" => pc'[r] = "done"
  /\ OnItsWay(r)'

Ends(r) ==
  /\ OthersStay(r) /\ UNCHANGED <<Data, committed>> /\ FreesRows(r)
  /\ pc'[r] \in {"release", "done", "crashed"}
  /\ pc'[r] = "release" => req[r].op \in {"lock", "redeem"}
  /\ UNCHANGED target

FreshFor(r) ==
  LET c == target[r]
  IN /\ req[r].op \in {"lock", "unlock", "redeem"} =>
          seen[r] = [status |-> status[c], version |-> version[c],
                     count |-> redemptionCount[c][req[r].user]]
     /\ req[r].op = "assignRandom" => status[c] = "available"

Takes(r) ==
  /\ OthersStay(r) /\ UNCHANGED <<Data, committed>>
  /\ pc[r] = "select" /\ pc'[r] = "write"
  /\ target'[r] \in Coupons /\ couponLock[target'[r]] = NoRequest
  /\ couponLock' = [couponLock EXCEPT ![target'[r]] = r]
  /\ \/ req[r].op # "redeem" /\ UNCHANGED bookLock
     \/ /\ req[r].op = "redeem"
        /\ bookLock[BookOf[target'[r]]] = NoRequest
        /\ bookLock' = [bookLock EXCEPT ![BookOf[target'[r]]] = r]
  /\ OnItsWay(r)' /\ FreshFor(r)'

Writes(r) ==
  /\ OthersStay(r) /\ FreesRows(r) /\ UNCHANGED target
  /\ pc[r] = "write" /\ pc'[r] \in {"release", "done"}
  /\ pc'[r] = "release" => req[r].op \in {"lock", "redeem"}
  /\ committed' = committed \cup {r}
  /\ \A c \in Coupons \ {target[r]} :
       /\ status'[c] = status[c] /\ version'[c] = version[c]
       /\ assignees'[c] = assignees[c]
  /\ status'[target[r]] # "available"
  /\ \A c \in Coupons : assignees[c] \subseteq assignees'[c]
  /\ \/ req[r].op # "redeem" /\ UNCHANGED redemptionCount
     \/ /\ req[r].op = "redeem" /\ CanRedeem(r)
        /\ redemptionCount' =
             [redemptionCount EXCEPT ![target[r]][req[r].user] = seen[r].count + 1]

Around == UNCHANGED <<req, pc, target, seen, Data, couponLock, bookLock, committed>>

-------------------------------------------------------------------------------
\* Every action has one of the shapes.

LEMMA RollbackEnds ==
  ASSUME TypeOK, NEW r \in Requests, NEW a, Rollback(r, a),
         UNCHANGED <<req, target, seen>>
  PROVE  Ends(r)
<1> USE DEF Rollback, EndTransaction
<1>1. UNCHANGED <<Data, committed>>
  BY DEF Data, storeVars, couponVars, assignmentVars
<1>2. OthersStay(r) /\ FreesRows(r) /\ UNCHANGED target
  BY DEF OthersStay, FreesRows, TypeOK
<1>3. /\ pc'[r] \in {"release", "done", "crashed"}
      /\ pc'[r] = "release" => req[r].op \in {"lock", "redeem"}
  BY DEF TypeOK
<1> QED BY <1>1, <1>2, <1>3 DEF Ends

LEMMA CommitFrees ==
  ASSUME TypeOK, NEW r \in Requests, Commit(r), UNCHANGED <<req, target, seen>>
  PROVE  /\ OthersStay(r) /\ FreesRows(r) /\ UNCHANGED target
         /\ pc'[r] \in {"release", "done"}
         /\ pc'[r] = "release" => req[r].op \in {"lock", "redeem"}
         /\ committed' = committed \cup {r}
BY DEF Commit, EndTransaction, OthersStay, FreesRows, TypeOK

LEMMA PreludeMoves ==
  ASSUME TypeOK, NEW r \in Requests, OnItsWay(r),
         \/ FindBook(r) \/ FindCoupon(r) \/ CheckUserAssignmentLimit(r)
         \/ HasDedup(r) \/ SetDedup(r) \/ AcquireLock(r) \/ ReleaseLock(r)
  PROVE  Moves(r)
<1> USE DEF Goto, Reply, storeVars, couponVars, assignmentVars, rowLocks, Data,
            Moves, OthersStay, OnItsWay, TypeOK
<1>1. CASE FindBook(r)
  BY <1>1 DEF FindBook, ValidateBook
<1>2. CASE FindCoupon(r)
  BY <1>2 DEF FindCoupon, ValidateBook
<1>3. CASE CheckUserAssignmentLimit(r)
  BY <1>3 DEF CheckUserAssignmentLimit
<1>4. CASE HasDedup(r)
  BY <1>4 DEF HasDedup
<1>5. CASE SetDedup(r)
  BY <1>5 DEF SetDedup
<1>6. CASE AcquireLock(r)
  BY <1>6 DEF AcquireLock
<1>7. CASE ReleaseLock(r)
  BY <1>7 DEF ReleaseLock
<1> QED BY <1>1, <1>2, <1>3, <1>4, <1>5, <1>6, <1>7

\* The three joins that read the rows of the caller end in ReadRows.
LEMMA ReadRowsTakes ==
  ASSUME TypeOK, NEW r \in Requests, pc[r] = "select",
         req[r].op \in {"lock", "unlock", "redeem"}, UNCHANGED req,
         Assigned(req[r].code, req[r].user), couponLock[req[r].code] = NoRequest,
         LockCoupon(r, req[r].code), ReadRows(r, req[r].code),
         \/ req[r].op # "redeem" /\ UNCHANGED bookLock
         \/ /\ req[r].op = "redeem"
            /\ bookLock[BookOf[req[r].code]] = NoRequest
            /\ bookLock' = [bookLock EXCEPT ![BookOf[req[r].code]] = r]
  PROVE  Takes(r)
<1> DEFINE c == req[r].code
<1>1. target'[r] = c /\ pc'[r] = "write" /\ c \in Coupons
  BY DEF ReadRows, Goto, TypeOK, Assigned
<1>2. seen'[r] = [status |-> status[c], version |-> version[c],
                  count |-> redemptionCount[c][req[r].user]]
  BY DEF ReadRows, TypeOK
<1>3. UNCHANGED <<Data, committed>>
  BY DEF ReadRows, Data, storeVars, couponVars, assignmentVars
<1>4. OthersStay(r)
  BY DEF OthersStay, ReadRows, Goto, TypeOK
<1>5. OnItsWay(r)'
  BY <1>1, <1>3 DEF OnItsWay, Assigned, Data
<1>6. FreshFor(r)'
  BY <1>1, <1>2, <1>3 DEF FreshFor, Data
<1> QED BY <1>1, <1>3, <1>4, <1>5, <1>6 DEF Takes, LockCoupon

LEMMA SelectShape ==
  ASSUME TypeOK, NEW r \in Requests, OnItsWay(r), Select(r)
  PROVE  Ends(r) \/ Takes(r)
<1>1. CASE SelectAvailable(r)
  <2>1. CASE Rollback(r, "rejected") /\ UNCHANGED <<target, seen>>
    BY <1>1, <2>1, RollbackEnds DEF SelectAvailable
  <2>2. CASE ~(Rollback(r, "rejected") /\ UNCHANGED <<target, seen>>)
    <3>1. PICK c \in Coupons :
            /\ status[c] = "available" /\ couponLock[c] = NoRequest
            /\ LockCoupon(r, c)
            /\ target' = [target EXCEPT ![r] = c]
            /\ seen' = [seen EXCEPT ![r].status = "available"]
            /\ Goto(r, "write")
            /\ UNCHANGED <<storeVars, bookLock, committed>>
      BY <1>1, <2>2 DEF SelectAvailable
    <3>2. pc[r] = "select" /\ req[r].op = "assignRandom" /\ UNCHANGED req
      BY <1>1 DEF SelectAvailable
    <3>3. target'[r] = c /\ pc'[r] = "write"
      BY <3>1 DEF TypeOK, Goto
    <3>4. OthersStay(r)
      BY <3>1, <3>2 DEF OthersStay, Goto, TypeOK
    <3>5. OnItsWay(r)'
      BY <3>2, <3>3 DEF OnItsWay
    <3>6. UNCHANGED <<Data, committed>>
      BY <3>1 DEF Data, storeVars, couponVars, assignmentVars
    <3>7. FreshFor(r)'
      BY <3>1, <3>2, <3>3, <3>6 DEF FreshFor, Data
    <3> QED BY <3>1, <3>2, <3>3, <3>4, <3>5, <3>6, <3>7 DEF Takes, LockCoupon
  <2> QED BY <2>1, <2>2
<1>2. CASE SelectForAssignment(r)
  <2>1. CASE Rollback(r, "serverError")
    BY <1>2, <2>1, RollbackEnds DEF SelectForAssignment
  <2>2. CASE ~Rollback(r, "serverError")
    <3>1. /\ pc[r] = "select" /\ req[r].op = "assignSpecific"
          /\ couponLock[target[r]] = NoRequest
          /\ LockCoupon(r, target[r])
          /\ Goto(r, "write")
          /\ UNCHANGED <<storeVars, bookLock, committed>>
          /\ UNCHANGED <<req, target, seen>>
      BY <1>2, <2>2 DEF SelectForAssignment
    <3>2. pc'[r] = "write" /\ target'[r] = target[r] /\ target[r] \in Coupons
      BY <3>1 DEF Goto, TypeOK, OnItsWay
    <3>3. OthersStay(r)
      BY <3>1 DEF OthersStay, Goto, TypeOK
    <3>4. OnItsWay(r)' /\ FreshFor(r)'
      BY <3>1, <3>2 DEF OnItsWay, FreshFor
    <3>5. UNCHANGED <<Data, committed>>
      BY <3>1 DEF Data, storeVars, couponVars, assignmentVars
    <3> QED BY <3>1, <3>2, <3>3, <3>4, <3>5 DEF Takes, LockCoupon
  <2> QED BY <2>1, <2>2
<1>3. CASE SelectNothing(r)
  BY <1>3, RollbackEnds DEF SelectNothing
<1>4. CASE SelectForLock(r)
  <2>1. CASE Rollback(r, "serverError") /\ UNCHANGED <<target, seen>>
    BY <1>4, <2>1, RollbackEnds DEF SelectForLock
  <2>2. CASE ~(Rollback(r, "serverError") /\ UNCHANGED <<target, seen>>)
    BY <1>4, <2>2, ReadRowsTakes DEF SelectForLock
  <2> QED BY <2>1, <2>2
<1>5. CASE SelectForUnlock(r)
  BY <1>5, ReadRowsTakes DEF SelectForUnlock
<1>6. CASE SelectForRedemption(r)
  <2>1. CASE Rollback(r, "serverError") /\ UNCHANGED <<target, seen>>
    BY <1>6, <2>1, RollbackEnds DEF SelectForRedemption
  <2>2. CASE ~(Rollback(r, "serverError") /\ UNCHANGED <<target, seen>>)
    BY <1>6, <2>2, ReadRowsTakes DEF SelectForRedemption
  <2> QED BY <2>1, <2>2
<1> QED BY <1>1, <1>2, <1>3, <1>4, <1>5, <1>6 DEF Select

\* A redemption writes over exactly what it read, so its UPDATE matches a row.
LEMMA WriteShape ==
  ASSUME TypeOK, NEW r \in Requests, OnItsWay(r), Write(r),
         pc[r] = "write" => FreshFor(r)
  PROVE  Ends(r) \/ Writes(r)
<1> DEFINE c == target[r]
           u == req[r].user
<1>1. pc[r] = "write" /\ c \in Coupons /\ u \in Users
  BY RequestAssumption DEF Write, WriteAssignment, WriteLock, WriteUnlock,
     WriteRedemption, OnItsWay, TypeOK
<1>2. UNCHANGED <<req, target, seen>>
  BY DEF Write, WriteAssignment, WriteLock, WriteUnlock, WriteRedemption
<1>3. ASSUME NEW s \in CouponStatus \ {"available"}, UpdateCoupon(c, s)
      PROVE  /\ \A d \in Coupons \ {c} : status'[d] = status[d]
                                           /\ version'[d] = version[d]
             /\ status'[c] # "available"
  BY <1>1, <1>3 DEF UpdateCoupon, TypeOK, StoreType
<1>4. CASE \E a : Rollback(r, a)
  BY <1>2, <1>4, RollbackEnds
<1>5. CASE WriteAssignment(r) /\ ~\E a : Rollback(r, a)
  <2>1. /\ UpdateCoupon(c, "assigned")
        /\ assignees' = [assignees EXCEPT ![c] = @ \cup {u}]
        /\ Commit(r) /\ UNCHANGED redemptionCount
        /\ req[r].op # "redeem"
    BY <1>5 DEF WriteAssignment, InsertAssignment
  <2>2. /\ \A d \in Coupons \ {c} : assignees'[d] = assignees[d]
        /\ \A d \in Coupons : assignees[d] \subseteq assignees'[d]
    BY <2>1 DEF TypeOK, StoreType
  <2> QED BY <1>1, <1>2, <1>3, <2>1, <2>2, CommitFrees DEF Writes, CouponStatus
<1>6. CASE (WriteLock(r) \/ WriteUnlock(r)) /\ ~\E a : Rollback(r, a)
  <2>1. /\ UpdateCoupon(c, "assigned") \/ UpdateCoupon(c, "locked")
        /\ Commit(r) /\ UNCHANGED <<assignees, redemptionCount>>
        /\ req[r].op # "redeem"
    BY <1>6 DEF WriteLock, WriteUnlock
  <2> QED BY <1>1, <1>2, <1>3, <2>1, CommitFrees DEF Writes, CouponStatus
<1>7. CASE WriteRedemption(r) /\ ~\E a : Rollback(r, a)
  <2> DEFINE s == StatusAfterRedemption(seen[r].count + 1,
                                        MaxRedemptions[BookOf[c]])
  <2>1. seen[r].version = version[c]
    BY <1>1, <1>7 DEF FreshFor, WriteRedemption
  <2>2. /\ UpdateCoupon(c, s)
        /\ redemptionCount' = [redemptionCount EXCEPT ![c][u] = seen[r].count + 1]
        /\ Commit(r) /\ CanRedeem(r) /\ UNCHANGED assignees
        /\ req[r].op = "redeem"
    BY <1>7, <2>1 DEF WriteRedemption, UpdateCouponVersion
  <2>3. s \in CouponStatus \ {"available"}
    BY DEF StatusAfterRedemption, CouponStatus
  <2> HIDE DEF s
  <2> QED BY <1>1, <1>2, <1>3, <2>2, <2>3, CommitFrees DEF Writes
<1> QED BY <1>4, <1>5, <1>6, <1>7 DEF Write

LEMMA FailureShape ==
  ASSUME TypeOK, NEW r \in Requests, OnItsWay(r), Failure(r)
  PROVE  Moves(r) \/ Ends(r)
<1>1. CASE CacheFailure(r)
  BY <1>1 DEF CacheFailure, Goto, Reply, storeVars, couponVars, assignmentVars,
     rowLocks, Data, Moves, OthersStay, OnItsWay, TypeOK
<1>2. CASE DatabaseFailure(r)
  <2>1. CASE Rollback(r, "serverError")
    BY <1>2, <2>1, RollbackEnds DEF DatabaseFailure
  <2>2. CASE ~Rollback(r, "serverError")
    BY <1>2, <2>2 DEF DatabaseFailure, Reply, storeVars, couponVars,
       assignmentVars, rowLocks, Data, Moves, OthersStay, OnItsWay, TypeOK
  <2> QED BY <2>1, <2>2
<1>3. CASE Crash(r)
  BY <1>3 DEF Crash, storeVars, couponVars, assignmentVars, Data, Ends,
     OthersStay, FreesRows, TypeOK
<1> QED BY <1>1, <1>2, <1>3 DEF Failure

LEMMA EnvironmentShape == Environment => Around
BY DEF Environment, ExpireLock, ExpireDedup, DeactivateBook, Clock, BookClock,
   LapseLock, Around, Data, storeVars, couponVars, assignmentVars, handlerVars,
   rowLocks

LEMMA StepShape ==
  ASSUME TypeOK, \A r \in Requests : OnItsWay(r), SnapshotStillFresh, [Next]_vars
  PROVE  \/ \E r \in Requests : Moves(r) \/ Ends(r) \/ Takes(r) \/ Writes(r)
         \/ Around
<1>1. ASSUME NEW r \in Requests, Handler(r)
      PROVE  Moves(r) \/ Ends(r) \/ Takes(r) \/ Writes(r)
  <2>1. pc[r] = "write" => FreshFor(r)
    BY DEF SnapshotStillFresh, FreshFor
  <2>2. CASE Select(r)
    BY <2>2, SelectShape
  <2>3. CASE Write(r)
    BY <2>1, <2>3, WriteShape
  <2>4. CASE ~Select(r) /\ ~Write(r)
    BY <1>1, <2>4, PreludeMoves DEF Handler
  <2> QED BY <2>2, <2>3, <2>4
<1>2. ASSUME NEW r \in Requests, Failure(r) PROVE Moves(r) \/ Ends(r)
  BY <1>2, FailureShape
<1>3. CASE UNCHANGED vars
  BY <1>3 DEF vars, Around, Data, storeVars, couponVars, assignmentVars,
              handlerVars, rowLocks
<1> QED BY <1>1, <1>2, <1>3, EnvironmentShape DEF Next

-------------------------------------------------------------------------------
\* Each part of the invariant, one step per shape.

LEMMA OnItsWayStep ==
  ASSUME TypeOK, \A r \in Requests : OnItsWay(r), TypeOK',
         \/ \E r \in Requests : Moves(r) \/ Ends(r) \/ Takes(r) \/ Writes(r)
         \/ Around
  PROVE  \A q \in Requests : OnItsWay(q)'
<1> SUFFICES ASSUME NEW q \in Requests PROVE OnItsWay(q)' OBVIOUS
<1>1. \A c \in Coupons : assignees[c] \subseteq assignees'[c]
  BY DEF Moves, Ends, Takes, Writes, Around, Data
<1>2. ASSUME UNCHANGED req, pc'[q] = pc[q], target'[q] = target[q]
      PROVE  OnItsWay(q)'
  BY <1>1, <1>2 DEF OnItsWay
<1>3. ASSUME NEW r \in Requests, Moves(r) \/ Ends(r) \/ Takes(r) \/ Writes(r)
      PROVE  OnItsWay(q)'
  <2>1. CASE q = r
    BY <1>3, <2>1 DEF Moves, Ends, Takes, Writes, OthersStay, OnItsWay
  <2>2. CASE q # r
    BY <1>2, <1>3, <2>2 DEF Moves, Ends, Takes, Writes, OthersStay
  <2> QED BY <2>1, <2>2
<1>4. CASE Around
  BY <1>2, <1>4 DEF Around
<1> QED BY <1>3, <1>4

LEMMA RowsLockedStep ==
  ASSUME TypeOK, TypeOK', RowsLockedByOpenTransactions,
         \/ \E r \in Requests : Moves(r) \/ Ends(r) \/ Takes(r) \/ Writes(r)
         \/ Around
  PROVE  RowsLockedByOpenTransactions'
<1> USE RequestAssumption DEF RowsLockedByOpenTransactions
<1>1. ASSUME NEW r \in Requests, Moves(r)
      PROVE  RowsLockedByOpenTransactions'
  BY <1>1 DEF Moves, OthersStay
<1>2. ASSUME NEW r \in Requests, Ends(r) \/ Writes(r)
      PROVE  RowsLockedByOpenTransactions'
  <2>1. /\ FreesRows(r) /\ OthersStay(r) /\ UNCHANGED target
        /\ pc'[r] # "write"
    BY <1>2 DEF Ends, Writes
  <2>2. ASSUME NEW c \in Coupons, NEW q \in Requests
        PROVE  couponLock'[c] = q <=> pc'[q] = "write" /\ target'[q] = c
    BY <2>1 DEF FreesRows, OthersStay
  <2>3. ASSUME NEW b \in Books, NEW q \in Requests
        PROVE  bookLock'[b] = q <=> /\ pc'[q] = "write" /\ req'[q].op = "redeem"
                                    /\ BookOf[target'[q]] = b
    BY <2>1 DEF FreesRows, OthersStay
  <2> QED BY <2>2, <2>3
<1>3. ASSUME NEW r \in Requests, Takes(r)
      PROVE  RowsLockedByOpenTransactions'
  <2>1. ASSUME NEW c \in Coupons, NEW q \in Requests
        PROVE  couponLock'[c] = q <=> pc'[q] = "write" /\ target'[q] = c
    <3>1. couponLock'[c] = IF c = target'[r] THEN r ELSE couponLock[c]
      BY <1>3 DEF Takes, TypeOK
    <3>2. couponLock[target'[r]] = NoRequest /\ target'[r] \in Coupons
      BY <1>3 DEF Takes
    <3>3. pc[r] = "select" /\ pc'[r] = "write"
      BY <1>3 DEF Takes
    <3>4. CASE q = r
      BY <3>1, <3>3, <3>4
    <3>5. CASE q # r
      <4>1. pc'[q] = pc[q] /\ target'[q] = target[q]
        BY <1>3, <3>5 DEF Takes, OthersStay
      <4> QED BY <3>1, <3>2, <3>5, <4>1
    <3> QED BY <3>4, <3>5
  <2>2. ASSUME NEW b \in Books, NEW q \in Requests
        PROVE  bookLock'[b] = q <=> /\ pc'[q] = "write" /\ req'[q].op = "redeem"
                                    /\ BookOf[target'[q]] = b
    <3>1. BookOf[target'[r]] \in Books
      BY <1>3, StoreAssumption DEF Takes
    <3>2. \/ /\ req[r].op # "redeem"
             /\ bookLock'[b] = bookLock[b]
          \/ /\ req[r].op = "redeem"
             /\ bookLock[BookOf[target'[r]]] = NoRequest
             /\ bookLock'[b] = IF b = BookOf[target'[r]] THEN r ELSE bookLock[b]
      BY <1>3, <3>1 DEF Takes, TypeOK
    <3>3. pc[r] = "select" /\ pc'[r] = "write" /\ UNCHANGED req
      BY <1>3 DEF Takes, OthersStay
    <3>4. CASE q = r
      BY <3>1, <3>2, <3>3, <3>4
    <3>5. CASE q # r
      <4>1. pc'[q] = pc[q] /\ target'[q] = target[q]
        BY <1>3, <3>5 DEF Takes, OthersStay
      <4> QED BY <3>1, <3>2, <3>3, <3>5, <4>1
    <3> QED BY <3>4, <3>5
  <2> QED BY <2>1, <2>2
<1>4. CASE Around
  BY <1>4 DEF Around
<1> QED BY <1>1, <1>2, <1>3, <1>4

\* Whoever writes a row holds its lock, so it is not the row of another open
\* transaction.
LEMMA SnapshotStep ==
  ASSUME TypeOK, TypeOK', \A r \in Requests : OnItsWay(r),
         RowsLockedByOpenTransactions, SnapshotStillFresh,
         \/ \E r \in Requests : Moves(r) \/ Ends(r) \/ Takes(r) \/ Writes(r)
         \/ Around
  PROVE  SnapshotStillFresh'
<1> SUFFICES ASSUME NEW q \in Requests, pc'[q] = "write"
             PROVE  FreshFor(q)'
  BY DEF SnapshotStillFresh, FreshFor
<1>1. pc[q] = "write" => FreshFor(q)
  BY DEF SnapshotStillFresh, FreshFor
<1>2. ASSUME UNCHANGED <<req, Data>>, pc[q] = "write",
             target'[q] = target[q], seen'[q] = seen[q]
      PROVE  FreshFor(q)'
  BY <1>1, <1>2 DEF FreshFor, Data
<1>3. ASSUME NEW r \in Requests, Moves(r) \/ Ends(r)
      PROVE  FreshFor(q)'
  <2>1. q # r
    BY <1>3 DEF Moves, Ends
  <2> QED BY <1>2, <1>3, <2>1 DEF Moves, Ends, OthersStay
<1>4. ASSUME NEW r \in Requests, Takes(r)
      PROVE  FreshFor(q)'
  <2>1. CASE q = r
    BY <1>4, <2>1 DEF Takes
  <2>2. CASE q # r
    BY <1>2, <1>4, <2>2 DEF Takes, OthersStay
  <2> QED BY <2>1, <2>2
<1>5. ASSUME NEW r \in Requests, Writes(r)
      PROVE  FreshFor(q)'
  <2>1. /\ q # r /\ pc[q] = "write" /\ pc[r] = "write"
        /\ UNCHANGED req /\ target'[q] = target[q] /\ seen'[q] = seen[q]
    BY <1>5 DEF Writes, OthersStay
  <2>2. target[q] \in Coupons /\ target[r] \in Coupons
    BY <2>1 DEF OnItsWay
  <2>3. target[q] # target[r]
    BY <2>1, <2>2 DEF RowsLockedByOpenTransactions
  <2>4. /\ status'[target[q]] = status[target[q]]
        /\ version'[target[q]] = version[target[q]]
    BY <1>5, <2>2, <2>3 DEF Writes
  <2>5. redemptionCount'[target[q]] = redemptionCount[target[q]]
    BY <1>5, <2>2, <2>3 DEF Writes, TypeOK, StoreType
  <2> QED BY <1>1, <2>1, <2>4, <2>5 DEF FreshFor
<1>6. CASE Around
  BY <1>2, <1>6 DEF Around
<1> QED BY <1>3, <1>4, <1>5, <1>6

LEMMA AvailableStep ==
  ASSUME TypeOK, AvailableMeansUnassigned,
         \/ \E r \in Requests : Moves(r) \/ Ends(r) \/ Takes(r) \/ Writes(r)
         \/ Around
  PROVE  AvailableMeansUnassigned'
<1>1. CASE UNCHANGED Data
  BY <1>1 DEF AvailableMeansUnassigned, Data
<1>2. ASSUME NEW r \in Requests, Writes(r)
      PROVE  AvailableMeansUnassigned'
  BY <1>2 DEF AvailableMeansUnassigned, Writes
<1> QED BY <1>1, <1>2 DEF Moves, Ends, Takes, Around, Data

\* The count a redemption read is below the limit of the book, so the next one
\* is at most the limit.
LEMMA LimitStep ==
  ASSUME TypeOK, RedemptionLimit,
         \/ \E r \in Requests : Moves(r) \/ Ends(r) \/ Takes(r) \/ Writes(r)
         \/ Around
  PROVE  RedemptionLimit'
<1>1. CASE UNCHANGED redemptionCount
  BY <1>1 DEF RedemptionLimit
<1>2. ASSUME NEW r \in Requests, Writes(r), req[r].op = "redeem"
      PROVE  RedemptionLimit'
  <2> SUFFICES ASSUME NEW c \in Coupons, NEW u \in Users,
                      MaxRedemptions[BookOf[c]] # NoLimit
               PROVE  redemptionCount'[c][u] <= MaxRedemptions[BookOf[c]]
    BY DEF RedemptionLimit
  <2>1. /\ CanRedeem(r)
        /\ redemptionCount' =
             [redemptionCount EXCEPT ![target[r]][req[r].user] = seen[r].count + 1]
    BY <1>2 DEF Writes
  <2>2. MaxRedemptions[BookOf[c]] \in Nat /\ seen[r].count \in Nat
    BY StoreAssumption DEF TypeOK
  <2>3. CASE c = target[r] /\ u = req[r].user
    <3>1. seen[r].count < MaxRedemptions[BookOf[c]]
      BY <2>1, <2>2, <2>3 DEF CanRedeem, ReachedLimit
    <3>2. redemptionCount'[c][u] = seen[r].count + 1
      BY <2>1, <2>3 DEF TypeOK, StoreType
    <3> QED BY <2>2, <3>1, <3>2
  <2>4. CASE ~(c = target[r] /\ u = req[r].user)
    <3>1. redemptionCount'[c][u] = redemptionCount[c][u]
      BY <2>1, <2>4 DEF TypeOK, StoreType
    <3> QED BY <3>1 DEF RedemptionLimit
  <2> QED BY <2>3, <2>4
<1> QED BY <1>1, <1>2 DEF Moves, Ends, Takes, Writes, Around, Data

LEMMA CommitStep ==
  ASSUME TypeOK, CommitIsLast, IsFiniteSet(committed),
         \/ \E r \in Requests : Moves(r) \/ Ends(r) \/ Takes(r) \/ Writes(r)
         \/ Around
  PROVE  CommitIsLast' /\ IsFiniteSet(committed')
<1> USE DEF CommitIsLast
<1>1. ASSUME NEW r \in Requests, Moves(r) \/ Ends(r) \/ Takes(r)
      PROVE  CommitIsLast' /\ IsFiniteSet(committed')
  BY <1>1 DEF Moves, Ends, Takes, OthersStay, TypeOK
<1>2. ASSUME NEW r \in Requests, Writes(r)
      PROVE  CommitIsLast' /\ IsFiniteSet(committed')
  <2>1. IsFiniteSet(committed')
    BY <1>2, FS_AddElement DEF Writes
  <2> QED BY <1>2, <2>1 DEF Writes, OthersStay, TypeOK
<1>3. CASE Around
  BY <1>3 DEF Around
<1> QED BY <1>1, <1>2, <1>3

\* What a redemption knows when it writes.
LEMMA RedemptionReads ==
  ASSUME NEW r \in Requests, OnItsWay(r), SnapshotStillFresh, pc[r] = "write",
         req[r].op = "redeem"
  PROVE  /\ target[r] \in Coupons /\ target[r] = req[r].code
         /\ req[r].user \in assignees[target[r]]
         /\ seen[r].count = redemptionCount[target[r]][req[r].user]
<1>1. seen[r] = [status |-> status[target[r]], version |-> version[target[r]],
                 count |-> redemptionCount[target[r]][req[r].user]]
  BY DEF SnapshotStillFresh
<1>2. seen[r].count = redemptionCount[target[r]][req[r].user]
  BY <1>1
<1> QED BY <1>2 DEF OnItsWay

\* A transaction that commits is new to the history, and it wrote the successor
\* of a count that was still the current one.
LEMMA NoLostStep ==
  ASSUME TypeOK, \A r \in Requests : OnItsWay(r), SnapshotStillFresh,
         CommitIsLast, IsFiniteSet(committed), NoLostRedemption,
         \/ \E r \in Requests : Moves(r) \/ Ends(r) \/ Takes(r) \/ Writes(r)
         \/ Around
  PROVE  NoLostRedemption'
<1> SUFFICES ASSUME NEW c \in Coupons, NEW u \in Users
             PROVE  redemptionCount'[c][u] = Cardinality(RedemptionsOf(c, u)')
  BY DEF NoLostRedemption
<1>1. redemptionCount[c][u] = Cardinality(RedemptionsOf(c, u))
  BY DEF NoLostRedemption
<1>2. CASE UNCHANGED <<req, committed, redemptionCount>>
  BY <1>1, <1>2 DEF RedemptionsOf
<1>3. ASSUME NEW r \in Requests, Writes(r)
      PROVE  redemptionCount'[c][u] = Cardinality(RedemptionsOf(c, u)')
  <2>1. UNCHANGED req /\ committed' = committed \cup {r} /\ pc[r] = "write"
    BY <1>3 DEF Writes, OthersStay
  <2>2. CASE req[r].op = "redeem" /\ req[r].code = c /\ req[r].user = u
    <3>1. RedemptionsOf(c, u)' = RedemptionsOf(c, u) \cup {r}
      BY <2>1, <2>2 DEF RedemptionsOf
    <3>2. r \notin RedemptionsOf(c, u)
      BY <2>1 DEF RedemptionsOf, CommitIsLast
    <3>3. IsFiniteSet(RedemptionsOf(c, u))
      BY FS_Subset DEF RedemptionsOf
    <3>4. Cardinality(RedemptionsOf(c, u)') = Cardinality(RedemptionsOf(c, u)) + 1
      BY <3>1, <3>2, <3>3, FS_AddElement
    <3>5. target[r] = c /\ seen[r].count = redemptionCount[c][u]
      BY <2>1, <2>2, RedemptionReads
    <3>6. redemptionCount'[c][u] = seen[r].count + 1
      BY <1>3, <2>2, <3>5 DEF Writes, TypeOK, StoreType
    <3> QED BY <1>1, <3>4, <3>5, <3>6
  <2>3. CASE ~(req[r].op = "redeem" /\ req[r].code = c /\ req[r].user = u)
    <3>1. RedemptionsOf(c, u)' = RedemptionsOf(c, u)
      BY <2>1, <2>3 DEF RedemptionsOf
    <3>2. redemptionCount'[c][u] = redemptionCount[c][u]
      <4>1. CASE req[r].op # "redeem"
        BY <1>3, <4>1 DEF Writes
      <4>2. CASE req[r].op = "redeem"
        <5>1. redemptionCount' =
                [redemptionCount EXCEPT ![target[r]][req[r].user] = seen[r].count + 1]
          BY <1>3, <4>2 DEF Writes
        <5>2. target[r] = req[r].code
          BY <2>1, <4>2, RedemptionReads
        <5> QED BY <2>3, <4>2, <5>1, <5>2 DEF TypeOK, StoreType
      <4> QED BY <4>1, <4>2
    <3> QED BY <1>1, <3>1, <3>2
  <2> QED BY <2>2, <2>3
<1> QED BY <1>2, <1>3 DEF Moves, Ends, Takes, Around, Data, OthersStay

-------------------------------------------------------------------------------
\* The invariant and the properties it gives.

LEMMA InitCore == Init => CoreInv
<1> SUFFICES ASSUME Init PROVE CoreInv OBVIOUS
<1>1. TypeOK
  BY InitType
<1>2. \A r \in Requests : pc[r] = FirstStep(req[r].op) /\ req[r].op \in Ops
  BY RequestAssumption DEF Init
<1>3. \A r \in Requests : pc[r] \notin {"write", "checkLimit"} /\ OnItsWay(r)
  BY <1>2 DEF FirstStep, Ops, OnItsWay
<1>4. RowsLockedByOpenTransactions
  BY <1>3, RequestAssumption DEF Init, RowsLockedByOpenTransactions
<1>5. SnapshotStillFresh
  BY <1>3 DEF SnapshotStillFresh
<1>6. AvailableMeansUnassigned
  BY DEF Init, StoreInit, AvailableMeansUnassigned
<1>7. RedemptionLimit
  <2>1. \A c \in Coupons : MaxRedemptions[BookOf[c]] # NoLimit =>
                             MaxRedemptions[BookOf[c]] \in Nat
    BY StoreAssumption
  <2>2. \A c \in Coupons, u \in Users : redemptionCount[c][u] = 0
    BY DEF Init, StoreInit
  <2> QED BY <2>1, <2>2 DEF RedemptionLimit
<1>8. CommitIsLast /\ IsFiniteSet(committed)
  BY FS_EmptySet DEF Init, CommitIsLast
<1>9. NoLostRedemption
  <2>1. \A c \in Coupons, u \in Users : RedemptionsOf(c, u) = {}
    BY DEF Init, RedemptionsOf
  <2>2. \A c \in Coupons, u \in Users : redemptionCount[c][u] = 0
    BY DEF Init, StoreInit
  <2> QED BY <2>1, <2>2, FS_EmptySet DEF NoLostRedemption
<1> QED BY <1>1, <1>3, <1>4, <1>5, <1>6, <1>7, <1>8, <1>9 DEF CoreInv

LEMMA NextCore == CoreInv /\ [Next]_vars => CoreInv'
<1> SUFFICES ASSUME CoreInv, [Next]_vars PROVE CoreInv' OBVIOUS
<1> USE DEF CoreInv
<1>1. \/ \E r \in Requests : Moves(r) \/ Ends(r) \/ Takes(r) \/ Writes(r)
      \/ Around
  BY StepShape
<1>2. TypeOK'
  BY NextType
<1>3. \A r \in Requests : OnItsWay(r)'
  BY <1>1, <1>2, OnItsWayStep
<1>4. RowsLockedByOpenTransactions'
  BY <1>1, <1>2, RowsLockedStep
<1>5. SnapshotStillFresh'
  BY <1>1, <1>2, SnapshotStep
<1>6. AvailableMeansUnassigned'
  BY <1>1, AvailableStep
<1>7. RedemptionLimit'
  BY <1>1, LimitStep
<1>8. CommitIsLast' /\ IsFiniteSet(committed')
  BY <1>1, CommitStep
<1>9. NoLostRedemption'
  BY <1>1, NoLostStep
<1> QED BY <1>2, <1>3, <1>4, <1>5, <1>6, <1>7, <1>8, <1>9

\* The strengthening holds in every reachable state.
THEOREM CoreInvariant == Spec => []CoreInv
<1>1. Init => CoreInv
  BY InitCore
<1>2. CoreInv /\ [Next]_vars => CoreInv'
  BY NextCore
<1> QED BY <1>1, <1>2, PTL DEF Spec

\* No user redeems a coupon more often than its book allows: not with any
\* number of concurrent requests, and not when Redis loses its flags and locks.
THEOREM RedemptionLimitHolds == Spec => []RedemptionLimit
<1>1. CoreInv => RedemptionLimit
  BY DEF CoreInv
<1> QED BY <1>1, CoreInvariant, PTL

\* The count of an assignment is the number of its committed redemptions.
THEOREM RedemptionsAreCounted == Spec => []NoLostRedemption
<1>1. CoreInv => NoLostRedemption
  BY DEF CoreInv
<1> QED BY <1>1, CoreInvariant, PTL

\* The version test of redeem never fails: its row lock already forbids what
\* the optimistic lock is there to detect.
THEOREM SnapshotsStayFresh == Spec => []SnapshotStillFresh
<1>1. CoreInv => SnapshotStillFresh
  BY DEF CoreInv
<1> QED BY <1>1, CoreInvariant, PTL

\* An available coupon has no assignee.
THEOREM AvailableIsUnassigned == Spec => []AvailableMeansUnassigned
<1>1. CoreInv => AvailableMeansUnassigned
  BY DEF CoreInv
<1> QED BY <1>1, CoreInvariant, PTL

\* No row stays locked by a request whose transaction is over.
THEOREM NoRowLockLeaks == Spec => []RowsLockedByOpenTransactions
<1>1. CoreInv => RowsLockedByOpenTransactions
  BY DEF CoreInv
<1> QED BY <1>1, CoreInvariant, PTL

-------------------------------------------------------------------------------
\* Refinement.  Only a commit moves the ledger, and it moves it by one entry.

LEMMA LedgerStep ==
  CoreInv /\ [Next]_vars => [Ledger!Next]_(Ledger!vars)
<1> SUFFICES ASSUME CoreInv, [Next]_vars PROVE [Ledger!Next]_(Ledger!vars) OBVIOUS
<1> USE DEF CoreInv
<1>1. CASE UNCHANGED <<assignees, redemptionCount>>
  BY <1>1 DEF Ledger!vars
<1>2. ASSUME NEW r \in Requests, Handler(r),
             ~UNCHANGED <<assignees, redemptionCount>>
      PROVE  Ledger!Next
  <2> DEFINE c == target[r]
             u == req[r].user
  <2>1. u \in Users
    BY RequestAssumption DEF TypeOK
  <2>2. CASE WriteAssignment(r)
    <3>1. /\ u \notin assignees[c] /\ c \in Coupons
          /\ assignees' = [assignees EXCEPT ![c] = @ \cup {u}]
          /\ UNCHANGED redemptionCount
      BY <1>2, <2>2 DEF WriteAssignment, InsertAssignment, Rollback, storeVars, assignmentVars,
                        OnItsWay
    <3> QED BY <2>1, <3>1 DEF Ledger!Next, Ledger!Grant
  <2>3. CASE WriteRedemption(r)
    <3>1. /\ pc[r] = "write" /\ req[r].op = "redeem" /\ CanRedeem(r)
          /\ redemptionCount' = [redemptionCount EXCEPT ![c][u] = seen[r].count + 1]
          /\ UNCHANGED assignees
      BY <1>2, <2>3 DEF WriteRedemption, Rollback, storeVars, assignmentVars
    <3>2. c \in Coupons /\ u \in assignees[c] /\ seen[r].count = redemptionCount[c][u]
      BY <3>1, RedemptionReads
    <3>3. redemptionCount' = [redemptionCount EXCEPT ![c][u] = @ + 1]
      BY <3>1, <3>2
    <3>4. \/ MaxRedemptions[BookOf[c]] = NoLimit
          \/ redemptionCount[c][u] < MaxRedemptions[BookOf[c]]
      <4>1. MaxRedemptions[BookOf[c]] \in Nat \cup {NoLimit}
        BY <3>2, StoreAssumption
      <4>2. redemptionCount[c][u] \in Nat
        BY <2>1, <3>2 DEF TypeOK, StoreType
      <4>3. ~ReachedLimit(redemptionCount[c][u], MaxRedemptions[BookOf[c]])
        BY <3>1, <3>2 DEF CanRedeem
      <4> QED BY <4>1, <4>2, <4>3 DEF ReachedLimit
    <3> QED BY <2>1, <3>1, <3>2, <3>3, <3>4 DEF Ledger!Next, Ledger!Use
  <2>4. CASE ~WriteAssignment(r) /\ ~WriteRedemption(r)
    BY <1>2, <2>4 DEF Handler, Select, Write, FindBook, FindCoupon,
       CheckUserAssignmentLimit, HasDedup, SetDedup, AcquireLock, ReleaseLock,
       SelectAvailable, SelectForAssignment, SelectNothing, SelectForLock,
       SelectForUnlock, SelectForRedemption, ReadRows, WriteLock, WriteUnlock,
       Rollback, storeVars, assignmentVars
  <2> QED BY <2>2, <2>3, <2>4
<1>3. ASSUME NEW r \in Requests, Failure(r)
      PROVE  UNCHANGED <<assignees, redemptionCount>>
  BY <1>3 DEF Failure, CacheFailure, DatabaseFailure, Crash, Rollback, storeVars,
              assignmentVars
<1>4. Around \/ UNCHANGED vars => UNCHANGED <<assignees, redemptionCount>>
  BY DEF Around, Data, vars, storeVars, assignmentVars
<1> QED BY <1>1, <1>2, <1>3, <1>4, EnvironmentShape DEF Next

\* The service implements the ledger of rights: whatever the requests, failures
\* and expiries, users are only granted coupons and only use them one by one
\* within their allowance.
THEOREM LedgerImplemented == Spec => ImplementsLedger
<1>1. Init => Ledger!Init
  <2>1. Init => TypeOK
    BY InitType
  <2> QED BY <2>1 DEF Init, StoreInit, Ledger!Init, TypeOK, StoreType
<1>2. CoreInv /\ [Next]_vars => [Ledger!Next]_(Ledger!vars)
  BY LedgerStep
<1> QED BY <1>1, <1>2, CoreInvariant, PTL DEF Spec, ImplementsLedger, Ledger!Spec
===============================================================================
