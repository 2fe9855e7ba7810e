-------------------------- MODULE CouponsApartProofs --------------------------
(***************************************************************************)
(* Proofs about CouponsService while calls keep apart: what holds of a     *)
(* coupon while no assignment by code overlaps another of that coupon, of  *)
(* the limit of a user while no two assignments count at a time, of double *)
(* submits while no two set their flag at a time; and of the Redis locks   *)
(* while no command fails, no lock expires under its request and no        *)
(* process dies.                                                           *)
(***************************************************************************)
EXTENDS CouponsInvariantProofs

RandomOnly == \A call \in Calls : call.op # "assignSpecific"

\* Calls that never assign by code are apart.
LEMMA RandomIsApart == ASSUME RandomOnly PROVE Spec => []CodesApart
<1>1. CoreInv => CodesApart
  BY DEF CoreInv, TypeOK, RandomOnly, CodesApart, ByCode
<1> QED BY <1>1, CoreInvariant, PTL

LEMMA ApartSpecIsApart == ApartSpec => Spec /\ []CodesApart /\ []CountsApart
<1>1. Init => CodesApart /\ CountsApart
  <2> SUFFICES ASSUME Init, NEW r \in Requests
               PROVE  pc[r] \notin {"checkLimit", "select", "write"}
                        \/ req[r].op \notin {"assignRandom", "assignSpecific"}
    BY DEF CodesApart, CountsApart, ByCode, Counted
  <2>1. pc[r] = FirstStep(req[r].op) /\ req[r].op \in Ops
    BY RequestAssumption DEF Init
  <2> QED BY <2>1 DEF FirstStep, Ops
<1>2. CodesApart /\ CountsApart /\ [Next /\ CodesApart' /\ CountsApart']_vars
        => CodesApart' /\ CountsApart'
  <2>1. UNCHANGED vars /\ CodesApart /\ CountsApart => CodesApart' /\ CountsApart'
    BY DEF vars, handlerVars, CodesApart, CountsApart, ByCode, Assigning, Counted,
           BookOfAssignment
  <2> QED BY <2>1
<1> QED BY <1>1, <1>2, PTL DEF ApartSpec, Spec

-------------------------------------------------------------------------------
\* The way of an assignment to its commit.

\* What an assignment by code has read of its coupon, and where a random one
\* found its own.
CodeFresh(r) ==
  ByCode(r) /\ seen[r].status = "available" => status[target[r]] = "available"
AllFresh == \A r \in Requests : CodeFresh(r)
OwnBook(r) ==
  req[r].op = "assignRandom" /\ pc[r] = "write" => BookOf[target[r]] = req[r].book

Starts(r) ==
  /\ pc[r] \in {"findBook", "findCoupon"}
  /\ BookOfAssignment(r)' \in Books
  /\ pc'[r] = IF MaxAssignments[BookOfAssignment(r)'] = NoLimit
              THEN "select" ELSE "checkLimit"
  /\ req[r].op = "assignSpecific" => seen'[r].status = status[target'[r]]

Passes(r) ==
  LET b == BookOfAssignment(r)
  IN /\ pc[r] = "checkLimit" /\ pc'[r] = "select"
     /\ UNCHANGED <<target, seen>>
     /\ ~ReachedLimit(Cardinality(HeldFrom(b, req[r].user)), MaxAssignments[b])

Picks(r) ==
  /\ pc[r] = "select" /\ pc'[r] = "write"
  /\ req[r].op = "assignRandom" => BookOf[target'[r]] = req[r].book
  /\ req[r].op = "assignSpecific" => UNCHANGED <<target, seen>>

LEMMA SelectTables ==
  ASSUME NEW r \in Requests, Select(r)
  PROVE  UNCHANGED storeVars
BY DEF Select, SelectAvailable, SelectForAssignment, SelectNothing, SelectForLock,
   SelectForUnlock, SelectForRedemption, Rollback, ReadRows

LEMMA FailureTables ==
  ASSUME NEW r \in Requests, Failure(r)
  PROVE  UNCHANGED storeVars
BY DEF Failure, CacheFailure, DatabaseFailure, Crash, Rollback

LEMMA AssignmentShape ==
  ASSUME CoreInv, NEW r \in Requests, Handler(r) \/ Failure(r),
         req[r].op \in {"assignRandom", "assignSpecific"},
         pc'[r] \in {"checkLimit", "select", "write"}
  PROVE  /\ UNCHANGED <<req, status, assignees>>
         /\ Starts(r) \/ Passes(r) \/ Picks(r)
<1>1. /\ TypeOK /\ OnItsWay(r)
      /\ pc \in [Requests -> PCs] /\ target \in [Requests -> Codes]
  BY DEF CoreInv, TypeOK
<1> USE <1>1 DEF Goto, Reply
<1>2. CASE FindBook(r)
  <2>1. pc[r] = "findBook" /\ req[r].op = "assignRandom"
    BY <1>2 DEF FindBook, OnItsWay
  <2> QED BY <1>2, <2>1 DEF FindBook, ValidateBook, Starts, BookOfAssignment, storeVars, couponVars,
              assignmentVars
<1>3. CASE FindCoupon(r)
  <2> DEFINE c == req[r].code
  <2>1. /\ c \in Coupons /\ BookOf[c] \in Books /\ req' = req
        /\ ValidateBook(r, BookOf[c]) /\ pc[r] = "findCoupon"
        /\ target' = [target EXCEPT ![r] = c]
        /\ seen' = [seen EXCEPT ![r].status = status[c]]
        /\ UNCHANGED <<status, assignees>>
    BY <1>3, StoreAssumption DEF FindCoupon, storeVars, couponVars, assignmentVars
  <2>2. target'[r] = c /\ seen'[r].status = status[c]
    BY <2>1 DEF TypeOK
  <2>3. BookOfAssignment(r)' = BookOf[c]
    BY <1>3, <2>1, <2>2 DEF FindCoupon, BookOfAssignment, OnItsWay
  <2>4. pc'[r] = IF MaxAssignments[BookOf[c]] = NoLimit THEN "select" ELSE "checkLimit"
    BY <2>1 DEF ValidateBook
  <2> QED BY <2>1, <2>2, <2>3, <2>4 DEF Starts
<1>4. CASE CheckUserAssignmentLimit(r)
  BY <1>4 DEF CheckUserAssignmentLimit, Passes, BookOfAssignment, storeVars, couponVars,
              assignmentVars
<1>5. CASE HasDedup(r) \/ SetDedup(r) \/ AcquireLock(r) \/ ReleaseLock(r)
  BY <1>5 DEF HasDedup, SetDedup, AcquireLock, ReleaseLock, OnItsWay
<1>6. CASE Select(r)
  <2>1. UNCHANGED <<req, status, assignees>>
    BY <1>6, SelectTables DEF storeVars, couponVars, assignmentVars, Select, SelectAvailable,
       SelectForAssignment, SelectNothing, SelectForLock, SelectForUnlock, SelectForRedemption
  <2>2. SelectAvailable(r) \/ SelectForAssignment(r)
    BY <1>6 DEF Select, SelectNothing, SelectForLock, SelectForUnlock, SelectForRedemption
  <2>3. Picks(r)
    BY <2>2 DEF SelectAvailable, SelectForAssignment, Rollback, EndTransaction, Picks
  <2> QED BY <2>1, <2>3
<1>7. CASE Write(r)
  BY <1>7 DEF Write, WriteAssignment, WriteLock, WriteUnlock, WriteRedemption, Rollback, Commit,
              EndTransaction
<1>8. CASE Failure(r)
  BY <1>8 DEF Failure, CacheFailure, DatabaseFailure, Crash, Rollback, EndTransaction
<1> QED BY <1>2, <1>3, <1>4, <1>5, <1>6, <1>7, <1>8 DEF Handler
\* A step of a handler has one of its shapes and moves no other handler.
LEMMA RequestStep ==
  ASSUME CoreInv, NEW r \in Requests, Handler(r) \/ Failure(r)
  PROVE  /\ Moves(r) \/ Ends(r) \/ Takes(r) \/ Writes(r)
         /\ OthersStay(r)
<1>1. Moves(r) \/ Ends(r) \/ Takes(r) \/ Writes(r)
  <2>1. TypeOK /\ OnItsWay(r)
    BY DEF CoreInv
  <2>2. pc[r] = "write" => FreshFor(r)
    BY DEF CoreInv, SnapshotStillFresh, FreshFor
  <2>3. CASE Select(r)
    BY <2>1, <2>3, SelectShape
  <2>4. CASE Write(r)
    BY <2>1, <2>2, <2>4, WriteShape
  <2>5. CASE Handler(r) /\ ~Select(r) /\ ~Write(r)
    BY <2>1, <2>5, PreludeMoves DEF Handler
  <2>6. CASE Failure(r)
    BY <2>1, <2>6, FailureShape
  <2> QED BY <2>3, <2>4, <2>5, <2>6
<1> QED BY <1>1 DEF Moves, Ends, Takes, Writes, OthersStay

LEMMA CodeFreshStep ==
  ASSUME CoreInv, CodesApart, \A r \in Requests : CodeFresh(r), [Next]_vars
  PROVE  \A r \in Requests : CodeFresh(r)'
<1> SUFFICES ASSUME NEW r \in Requests, ByCode(r)', seen'[r].status = "available"
             PROVE  status'[target'[r]] = "available"
  BY DEF CodeFresh
<1>1. ASSUME ByCode(r), UNCHANGED <<req, status>>, target'[r] = target[r],
             seen'[r].status = seen[r].status
      PROVE  status'[target'[r]] = "available"
  BY <1>1 DEF CodeFresh
<1>2. CASE Handler(r) \/ Failure(r)
  <2>1. req' = req
    BY <1>2, RequestStep DEF OthersStay
  <2>2. Starts(r) \/ Passes(r) \/ Picks(r)
    BY <1>2, <2>1, AssignmentShape DEF ByCode
  <2>3. UNCHANGED <<req, status, assignees>>
    BY <1>2, <2>1, AssignmentShape DEF ByCode
  <2>4. Passes(r) \/ Picks(r) => ByCode(r) /\ UNCHANGED <<target, seen>>
    BY <2>1 DEF Passes, Picks, ByCode
  <2>5. Starts(r) => status'[target'[r]] = "available"
    BY <2>1, <2>3 DEF Starts, ByCode
  <2> QED BY <1>1, <2>2, <2>3, <2>4, <2>5
<1>3. ASSUME NEW q \in Requests \ {r}, Handler(q) \/ Failure(q)
      PROVE  status'[target'[r]] = "available"
  <2>1. /\ Moves(q) \/ Ends(q) \/ Takes(q) \/ Writes(q)
        /\ OthersStay(q)
    BY <1>3, RequestStep
  <2>2. ByCode(r) /\ target'[r] = target[r] /\ seen'[r] = seen[r] /\ req' = req
    BY <2>1 DEF OthersStay, ByCode
  <2>3. CASE UNCHANGED Data
    BY <1>1, <2>2, <2>3 DEF Data
  <2>4. CASE Writes(q)
    <3>1. status[target[r]] = "available" /\ target[r] \in Coupons /\ target[q] \in Coupons
      BY <2>2, <2>4 DEF CodeFresh, ByCode, Writes, CoreInv, OnItsWay
    <3>2. assignees[target[r]] = {}
      BY <3>1 DEF CoreInv, AvailableMeansUnassigned
    <3>3. target[q] # target[r]
      <4>1. CASE req[q].op \in {"lock", "unlock", "redeem"}
        BY <2>4, <3>2, <4>1 DEF Writes, CoreInv, OnItsWay
      <4>2. CASE req[q].op \notin {"lock", "unlock", "redeem"}
        <5>1. req[q].op \in {"assignRandom", "assignSpecific"}
          BY <4>2, RequestAssumption DEF CoreInv, TypeOK, Ops
        <5>2. Assigning(q)
          BY <2>4, <5>1 DEF Assigning, ByCode, Writes
        <5> QED BY <2>2, <5>2 DEF CodesApart
      <4> QED BY <4>1, <4>2
    <3> QED BY <2>2, <2>4, <3>1, <3>3 DEF Writes
  <2> QED BY <2>1, <2>3, <2>4 DEF Moves, Ends, Takes
<1>4. CASE Environment \/ UNCHANGED vars
  BY <1>1, <1>4, EnvironmentShape DEF Around, Data, vars, handlerVars, storeVars, couponVars,
     ByCode
<1> QED BY <1>2, <1>3, <1>4 DEF Next

-------------------------------------------------------------------------------

\* No two users share a coupon, and a pair without assignment has no history.
OneHolder == \A c \in Coupons : \A u1, u2 \in assignees[c] : u1 = u2
CleanPairs ==
  \A c \in Coupons, u \in Users :
    u \notin assignees[c] => redemptionCount[c][u] = 0 /\ lockState[c][u] = "none"

\* The status of a coupon and the count of its holder, in one coupon.
UsedUp(c, u) ==
  /\ MaxRedemptions[BookOf[c]] # NoLimit
  /\ redemptionCount[c][u] = MaxRedemptions[BookOf[c]]
StatusTellsCount ==
  \A c \in Coupons : \A u \in assignees[c] : status[c] = "redeemed" <=> UsedUp(c, u)

SoleInv == OneHolder /\ CleanPairs /\ LockColumnsAgree /\ StatusTellsCount

-------------------------------------------------------------------------------
\* What a step does to the tables.

Quiet ==
  /\ UNCHANGED <<status, assignees, redemptionCount>>
  /\ \A c \in Coupons, u \in Users : lockState'[c][u] = "none" <=> lockState[c][u] = "none"

\* One coupon gets a new status; the others keep all they have.
Touches(c, s) ==
  /\ status' = [status EXCEPT ![c] = s]
  /\ \A d \in Coupons \ {c} :
       /\ assignees'[d] = assignees[d]
       /\ redemptionCount'[d] = redemptionCount[d]
       /\ lockState'[d] = lockState[d]

Assigns(c, u) ==
  /\ Touches(c, "assigned") /\ status[c] = "available"
  /\ assignees'[c] = assignees[c] \cup {u}
  /\ UNCHANGED <<redemptionCount, lockState>>

Locks(c, u) ==
  /\ Touches(c, "locked") /\ status[c] \in {"assigned", "locked"}
  /\ u \in assignees[c]
  /\ UNCHANGED <<assignees, redemptionCount>>
  /\ lockState' = [lockState EXCEPT ![c][u] = "active"]

Unlocks(c, u) ==
  /\ Touches(c, "assigned") /\ status[c] = "locked"
  /\ u \in assignees[c]
  /\ UNCHANGED <<assignees, redemptionCount>>
  /\ lockState' = [lockState EXCEPT ![c][u] = "none"]

Redeems(c, u) ==
  LET max == MaxRedemptions[BookOf[c]]
      count == redemptionCount[c][u] + 1
  IN /\ Touches(c, IF max # NoLimit /\ count >= max THEN "redeemed" ELSE "assigned")
     /\ status[c] \in {"assigned", "locked"}
     /\ u \in assignees[c]
     /\ UNCHANGED assignees
     /\ redemptionCount' = [redemptionCount EXCEPT ![c][u] = count]
     /\ lockState' = [lockState EXCEPT ![c][u] = "none"]

TableStep ==
  \/ Quiet
  \/ \E c \in Coupons, u \in Users :
       Assigns(c, u) \/ Locks(c, u) \/ Unlocks(c, u) \/ Redeems(c, u)

LEMMA QuietSteps ==
  ASSUME UNCHANGED storeVars
  PROVE  Quiet
BY DEF storeVars, couponVars, assignmentVars, Quiet

LEMMA WriteTables ==
  ASSUME CoreInv, NEW r \in Requests, CodeFresh(r), Write(r)
  PROVE  TableStep
<1> DEFINE c == target[r]
           u == req[r].user
<1>1. /\ pc[r] = "write" /\ c \in Coupons /\ u \in Users /\ TypeOK
  BY RequestAssumption DEF CoreInv, Write, WriteAssignment, WriteLock, WriteUnlock,
     WriteRedemption, OnItsWay, TypeOK
<1>2. CASE \E a : Rollback(r, a)
  BY <1>2, QuietSteps DEF Rollback, TableStep
<1>3. /\ req[r].op \in {"lock", "unlock", "redeem"} =>
            /\ u \in assignees[c]
            /\ seen[r] = [status |-> status[c], version |-> version[c],
                          count |-> redemptionCount[c][u]]
      /\ req[r].op = "assignRandom" => status[c] = "available"
      /\ req[r].op = "assignSpecific" /\ seen[r].status = "available" =>
            status[c] = "available"
  BY <1>1 DEF CoreInv, SnapshotStillFresh, OnItsWay, CodeFresh, ByCode
<1>4. CASE WriteAssignment(r) /\ ~\E a : Rollback(r, a)
  <2>1. /\ status' = [status EXCEPT ![c] = "assigned"]
        /\ assignees' = [assignees EXCEPT ![c] = @ \cup {u}]
        /\ UNCHANGED <<redemptionCount, lockState>>
        /\ req[r].op \in {"assignRandom", "assignSpecific"} /\ seen[r].status = "available"
    BY <1>1, <1>4 DEF WriteAssignment, UpdateCoupon, InsertAssignment
  <2>2. Assigns(c, u)
    BY <1>1, <1>3, <2>1 DEF Assigns, Touches, TypeOK, StoreType
  <2> QED BY <1>1, <2>2 DEF TableStep
<1>5. CASE WriteLock(r) /\ ~\E a : Rollback(r, a)
  <2>1. /\ status' = [status EXCEPT ![c] = "locked"]
        /\ lockState' = [lockState EXCEPT ![c][u] = "active"]
        /\ UNCHANGED <<assignees, redemptionCount>>
        /\ seen[r].status \in {"assigned", "locked"} /\ req[r].op = "lock"
    BY <1>5 DEF WriteLock, UpdateCoupon, SetLockColumns, IsValidStatusForRedemption
  <2>2. Locks(c, u)
    BY <1>1, <1>3, <2>1 DEF Locks, Touches, TypeOK, StoreType
  <2> QED BY <1>1, <2>2 DEF TableStep
<1>6. CASE WriteUnlock(r) /\ ~\E a : Rollback(r, a)
  <2>1. /\ status' = [status EXCEPT ![c] = "assigned"]
        /\ lockState' = [lockState EXCEPT ![c][u] = "none"]
        /\ UNCHANGED <<assignees, redemptionCount>>
        /\ seen[r].status = "locked" /\ req[r].op = "unlock"
    BY <1>6 DEF WriteUnlock, UpdateCoupon, SetLockColumns
  <2>2. Unlocks(c, u)
    BY <1>1, <1>3, <2>1 DEF Unlocks, Touches, TypeOK, StoreType
  <2> QED BY <1>1, <2>2 DEF TableStep
<1>7. CASE WriteRedemption(r) /\ ~\E a : Rollback(r, a)
  <2> DEFINE max == MaxRedemptions[BookOf[c]]
             s == StatusAfterRedemption(seen[r].count + 1, max)
  <2>1. req[r].op = "redeem" /\ seen[r].version = version[c]
        /\ seen[r].count = redemptionCount[c][u] /\ seen[r].status = status[c]
    BY <1>3, <1>7 DEF WriteRedemption
  <2>2. /\ status' = [status EXCEPT ![c] = s]
        /\ redemptionCount' = [redemptionCount EXCEPT ![c][u] = seen[r].count + 1]
        /\ lockState' = [lockState EXCEPT ![c][u] = "none"]
        /\ UNCHANGED assignees
        /\ status[c] \in {"assigned", "locked"}
    BY <1>7, <2>1 DEF WriteRedemption, UpdateCouponVersion, UpdateCoupon, SetLockColumns,
       CanRedeem, IsValidStatusForRedemption
  <2>3. s = IF max # NoLimit /\ redemptionCount[c][u] + 1 >= max THEN "redeemed" ELSE "assigned"
    BY <2>1 DEF StatusAfterRedemption, IsFullyRedeemed, ReachedLimit
  <2> HIDE DEF s
  <2>4. Touches(c, s)
    BY <1>1, <2>2 DEF Touches, TypeOK, StoreType
  <2>5. Redeems(c, u)
    BY <1>1, <1>3, <2>1, <2>2, <2>3, <2>4 DEF Redeems
  <2> QED BY <1>1, <2>5 DEF TableStep
<1> QED BY <1>2, <1>4, <1>5, <1>6, <1>7 DEF Write

LEMMA StepTables ==
  ASSUME CoreInv, \A r \in Requests : CodeFresh(r), [Next]_vars
  PROVE  TableStep
<1>1. ASSUME NEW r \in Requests, Handler(r) PROVE TableStep
  <2>1. CASE Write(r)
    BY <2>1, WriteTables
  <2>2. CASE Select(r)
    BY <2>2, SelectTables, QuietSteps DEF TableStep
  <2>3. CASE ~Write(r) /\ ~Select(r)
    <3>1. UNCHANGED storeVars
      BY <1>1, <2>3 DEF Handler, FindBook, FindCoupon, CheckUserAssignmentLimit, HasDedup,
         SetDedup, AcquireLock, ReleaseLock
    <3> QED BY <3>1, QuietSteps DEF TableStep
  <2> QED BY <2>1, <2>2, <2>3
<1>2. ASSUME NEW r \in Requests, Failure(r) PROVE TableStep
  BY <1>2, FailureTables, QuietSteps DEF TableStep
<1>3. CASE Environment
  <2>1. CASE Clock
    <3>1. ASSUME NEW c \in Coupons, NEW u \in Users, LapseLock(c, u) PROVE Quiet
      <4>1. /\ lockState[c][u] = "active" /\ UNCHANGED <<couponVars, assignees, redemptionCount>>
            /\ lockState' = [lockState EXCEPT ![c][u] = "lapsed"]
            /\ lockState \in [Coupons -> [Users -> LockState]]
        BY <3>1 DEF LapseLock, CoreInv, TypeOK, StoreType
      <4>2. ASSUME NEW d \in Coupons, NEW v \in Users
            PROVE  lockState'[d][v] = IF d = c /\ v = u THEN "lapsed" ELSE lockState[d][v]
        BY <4>1
      <4> QED BY <4>1, <4>2 DEF Quiet, couponVars
    <3>2. ASSUME NEW b \in Books, BookClock(b) PROVE Quiet
      BY <3>2 DEF BookClock, Quiet, couponVars, assignmentVars
    <3> QED BY <2>1, <3>1, <3>2 DEF Clock, TableStep
  <2>2. CASE ~Clock
    BY <1>3, <2>2 DEF Environment, ExpireLock, ExpireDedup, DeactivateBook, Quiet, TableStep,
       storeVars, couponVars, assignmentVars
  <2> QED BY <2>1, <2>2
<1>4. CASE UNCHANGED vars
  BY <1>4, QuietSteps DEF vars, TableStep
<1> QED BY <1>1, <1>2, <1>3, <1>4 DEF Next

-------------------------------------------------------------------------------
\* SoleInv is inductive, given CoreInv.

LEMMA StoreTypes ==
  ASSUME CoreInv
  PROVE  /\ status \in [Coupons -> CouponStatus]
         /\ assignees \in [Coupons -> SUBSET Users]
         /\ redemptionCount \in [Coupons -> [Users -> Nat]]
         /\ lockState \in [Coupons -> [Users -> LockState]]
         /\ \A c \in Coupons : BookOf[c] \in Books
         /\ \A b \in Books : MaxRedemptions[b] # NoLimit => MaxRedemptions[b] \in Nat \ {0}
BY StoreAssumption DEF CoreInv, TypeOK, StoreType

\* What SoleInv says of one coupon.
InvOf(c) ==
  /\ \A u1, u2 \in assignees[c] : u1 = u2
  /\ \A u \in Users :
       u \notin assignees[c] => redemptionCount[c][u] = 0 /\ lockState[c][u] = "none"
  /\ status[c] = "locked" <=> \E u \in assignees[c] : lockState[c][u] # "none"
  /\ \A u \in assignees[c] : status[c] = "redeemed" <=> UsedUp(c, u)

LEMMA SoleInvParts == SoleInv <=> \A c \in Coupons : InvOf(c)
BY DEF SoleInv, InvOf, OneHolder, CleanPairs, LockColumnsAgree, StatusTellsCount

LEMMA SoleStep ==
  ASSUME CoreInv, CoreInv', SoleInv, TableStep
  PROVE  SoleInv'
<1>0. \A c \in Coupons : InvOf(c)
  BY SoleInvParts
<1>1. SUFFICES ASSUME NEW d \in Coupons PROVE InvOf(d)'
  BY DEF SoleInv, InvOf, OneHolder, CleanPairs, LockColumnsAgree, StatusTellsCount
<1>2. InvOf(d)
  BY <1>0
<1> USE StoreTypes
<1>3. CASE Quiet
  BY <1>2, <1>3 DEF Quiet, InvOf, UsedUp
<1>4. ASSUME NEW c \in Coupons, NEW u \in Users,
             Assigns(c, u) \/ Locks(c, u) \/ Unlocks(c, u) \/ Redeems(c, u), c # d
      PROVE  InvOf(d)'
  <2>1. /\ status'[d] = status[d] /\ assignees'[d] = assignees[d]
        /\ redemptionCount'[d] = redemptionCount[d] /\ lockState'[d] = lockState[d]
    BY <1>4 DEF Assigns, Locks, Unlocks, Redeems, Touches
  <2> QED BY <1>2, <2>1 DEF InvOf, UsedUp
<1>5. ASSUME NEW u \in Users, Assigns(d, u) PROVE InvOf(d)'
  <2>1. assignees[d] = {} /\ status'[d] = "assigned" /\ assignees'[d] = {u}
        /\ redemptionCount' = redemptionCount /\ lockState' = lockState
    BY <1>5 DEF Assigns, Touches, CoreInv, AvailableMeansUnassigned
  <2>2. redemptionCount[d][u] = 0 /\ lockState[d][u] = "none" /\ ~UsedUp(d, u)'
    BY <1>2, <2>1 DEF InvOf, UsedUp
  <2> QED BY <1>2, <2>1, <2>2 DEF InvOf
<1>6. ASSUME NEW u \in Users, Locks(d, u) PROVE InvOf(d)'
  <2>1. /\ status'[d] = "locked" /\ assignees'[d] = {u} /\ assignees[d] = {u}
        /\ redemptionCount' = redemptionCount
        /\ lockState'[d][u] = "active" /\ status[d] # "redeemed"
        /\ \A v \in Users \ {u} : lockState'[d][v] = lockState[d][v]
    BY <1>2, <1>6 DEF Locks, Touches, InvOf
  <2> QED BY <1>2, <2>1 DEF InvOf, UsedUp
<1>7. ASSUME NEW u \in Users, Unlocks(d, u) PROVE InvOf(d)'
  <2>1. /\ status'[d] = "assigned" /\ assignees'[d] = {u} /\ assignees[d] = {u}
        /\ redemptionCount' = redemptionCount
        /\ lockState'[d][u] = "none" /\ status[d] # "redeemed"
        /\ \A v \in Users \ {u} : lockState'[d][v] = lockState[d][v]
    BY <1>2, <1>7 DEF Unlocks, Touches, InvOf
  <2> QED BY <1>2, <2>1 DEF InvOf, UsedUp
<1>8. ASSUME NEW u \in Users, Redeems(d, u) PROVE InvOf(d)'
  <2> DEFINE max == MaxRedemptions[BookOf[d]]
             count == redemptionCount[d][u] + 1
  <2>1. /\ assignees'[d] = {u} /\ assignees[d] = {u}
        /\ lockState'[d][u] = "none" /\ redemptionCount'[d][u] = count
        /\ \A v \in Users \ {u} : /\ lockState'[d][v] = lockState[d][v]
                                  /\ redemptionCount'[d][v] = redemptionCount[d][v]
        /\ status'[d] = IF max # NoLimit /\ count >= max THEN "redeemed" ELSE "assigned"
    BY <1>2, <1>8 DEF Redeems, Touches, InvOf
  <2>2. max # NoLimit => count <= max
    BY <2>1 DEF CoreInv, RedemptionLimit
  <2>3. status'[d] = "redeemed" <=> UsedUp(d, u)'
    BY <2>1, <2>2 DEF UsedUp
  <2> QED BY <1>2, <2>1, <2>3 DEF InvOf
<1> QED BY <1>3, <1>4, <1>5, <1>6, <1>7, <1>8 DEF TableStep

LEMMA SoleInit == Init => SoleInv
<1> SUFFICES ASSUME Init, NEW c \in Coupons PROVE InvOf(c)
  BY SoleInvParts
<1>1. /\ assignees[c] \in {{}} \cup {{u} : u \in Users}
      /\ status[c] = IF assignees[c] = {} THEN "available" ELSE "assigned"
      /\ redemptionCount[c] = [u \in Users |-> 0]
      /\ lockState[c] = [u \in Users |-> "none"]
  BY DEF Init, StoreInit
<1>2. MaxRedemptions[BookOf[c]] # 0
  BY StoreAssumption
<1>3. \A u \in assignees[c] : u \in Users /\ ~UsedUp(c, u)
  BY <1>1, <1>2 DEF UsedUp
<1> QED BY <1>1, <1>3 DEF InvOf

LEMMA SoleInvariant ==
  Spec /\ []CodesApart => [](CoreInv /\ SoleInv /\ AllFresh)
<1>1. Init => CoreInv /\ SoleInv /\ AllFresh
  <2>1. ASSUME Init, NEW r \in Requests PROVE ~ByCode(r)
    <3>1. pc[r] = FirstStep(req[r].op) /\ req[r].op \in Ops
      BY <2>1, RequestAssumption DEF Init
    <3> QED BY <3>1 DEF FirstStep, Ops, ByCode
  <2> QED BY <2>1, InitCore, SoleInit DEF AllFresh, CodeFresh
<1>2. CoreInv /\ SoleInv /\ AllFresh /\ CodesApart /\ [Next]_vars
        => CoreInv' /\ SoleInv' /\ AllFresh'
  <2> SUFFICES ASSUME CoreInv, SoleInv, AllFresh, CodesApart, [Next]_vars
               PROVE  CoreInv' /\ SoleInv' /\ AllFresh'
    OBVIOUS
  <2>1. CoreInv' /\ AllFresh'
    BY NextCore, CodeFreshStep DEF AllFresh
  <2> QED BY <2>1, StepTables, SoleStep DEF AllFresh
<1> QED BY <1>1, <1>2, PTL DEF Spec

-------------------------------------------------------------------------------
\* No coupon has two assignees: a random assignment takes a row nobody has locked,
\* and one by code tests a status nobody has changed meanwhile
\* (coupons.service.ts:341-421).
THEOREM SoleAssignees == Spec /\ []CodesApart => []SoleAssignee
<1>1. SoleInv => SoleAssignee
  <2> SUFFICES ASSUME SoleInv, NEW c \in Coupons PROVE Cardinality(assignees[c]) <= 1
    BY DEF SoleAssignee
  <2>1. CASE assignees[c] = {}
    BY <2>1, FS_EmptySet
  <2>2. CASE assignees[c] # {}
    <3>1. PICK u \in assignees[c] : TRUE
      BY <2>2
    <3>2. assignees[c] = {u}
      BY <3>1 DEF SoleInv, OneHolder
    <3>3. Cardinality({u}) = 1
      BY FS_Singleton
    <3> QED BY <3>2, <3>3
  <2> QED BY <2>1, <2>2
<1> QED BY <1>1, SoleInvariant, PTL

\* Status and lock columns, which two UPDATEs write, agree.
THEOREM LockColumnsAlwaysAgree == Spec /\ []CodesApart => []LockColumnsAgree
BY SoleInvariant, PTL DEF SoleInv

LEMMA UsedUpIsNothingLeft ==
  ASSUME CoreInv, NEW c \in Coupons, NEW u \in Users
  PROVE  RemainingRedemptions(c, u) = 0 <=> UsedUp(c, u)
<1>1. /\ MaxRedemptions[BookOf[c]] # NoLimit => MaxRedemptions[BookOf[c]] \in Nat
      /\ redemptionCount[c][u] \in Nat /\ NoLimit # 0
  BY StoreTypes, StoreAssumption
<1> QED BY <1>1 DEF RemainingRedemptions, UsedUp

\* The coupons the status endpoint has nothing left for.
UsedBy(u) ==
  {c \in Coupons : /\ CouponStatusResponse(c, u).isAssignedToUser
                   /\ CouponStatusResponse(c, u).redemptionsRemaining = 0}

\* The answers of getCouponStatus and getUserCoupons agree
\* (coupons.service.ts:235-328).
THEOREM QueriesAgree == Spec /\ []CodesApart => []RedeemedMeansUsedUp
<1>1. CoreInv /\ SoleInv => RedeemedMeansUsedUp
  <2> SUFFICES ASSUME CoreInv, SoleInv PROVE RedeemedMeansUsedUp
    OBVIOUS
  <2>1. ASSUME NEW u \in Users
        PROVE  /\ \A c \in Coupons : CouponStatusResponse(c, u).isAssignedToUser =>
                    /\ CouponStatusResponse(c, u).status = "redeemed"
                         <=> CouponStatusResponse(c, u).redemptionsRemaining = 0
                    /\ CouponStatusResponse(c, u).isLocked
                         => CouponStatusResponse(c, u).status = "locked"
               /\ UserCouponsResponse(u).redeemedCoupons = Cardinality(UsedBy(u))
               /\ UserCouponsResponse(u).availableCoupons
                    = UserCouponsResponse(u).totalCoupons - Cardinality(UsedBy(u))
    <3> DEFINE mine == UserCoupons(u)
               gone == {c \in mine : status[c] = "redeemed"}
               left == {c \in mine : status[c] # "redeemed"}
               answer(c) == CouponStatusResponse(c, u)
    <3>1. \A c \in Coupons : answer(c).isAssignedToUser <=> c \in mine
      BY DEF CouponStatusResponse, UserCoupons
    <3>2. ASSUME NEW c \in mine
          PROVE  /\ answer(c).status = status[c]
                 /\ answer(c).isLocked <=> lockState[c][u] = "active"
                 /\ answer(c).redemptionsRemaining = 0 <=> status[c] = "redeemed"
      <4>1. c \in Coupons /\ u \in assignees[c] /\ Assigned(c, u)
        BY DEF UserCoupons, Assigned
      <4>2. /\ answer(c).status = status[c]
            /\ answer(c).redemptionsRemaining = RemainingRedemptions(c, u)
        BY <4>1 DEF CouponStatusResponse
      <4>3. answer(c).isLocked <=> lockState[c][u] = "active"
        BY <4>1, Zenon DEF CouponStatusResponse, IsCouponLocked
      <4>4. RemainingRedemptions(c, u) = 0 <=> status[c] = "redeemed"
        BY <4>1, UsedUpIsNothingLeft DEF SoleInv, StatusTellsCount
      <4> QED BY <4>2, <4>3, <4>4
    <3>3. \A c \in mine : c \in Coupons /\ u \in assignees[c]
      BY DEF UserCoupons, Assigned
    <3>4. UsedBy(u) = gone
      BY <3>1, <3>2, <3>3 DEF UsedBy
    <3>5. \A c \in mine : answer(c).isLocked => answer(c).status = "locked"
      BY <3>2, <3>3 DEF SoleInv, LockColumnsAgree
    <3>6. Cardinality(left) = Cardinality(mine) - Cardinality(gone)
      <4>1. IsFiniteSet(mine) /\ mine \subseteq Coupons
        BY <3>3, FiniteCoupons, FS_Subset
      <4>2. left = mine \ gone /\ mine \cap gone = gone
        OBVIOUS
      <4>3. Cardinality(mine \ gone) = Cardinality(mine) - Cardinality(mine \cap gone)
        BY <4>1, FS_Difference
      <4> QED BY <4>2, <4>3
    <3>7. /\ UserCouponsResponse(u).redeemedCoupons = Cardinality(gone)
          /\ UserCouponsResponse(u).availableCoupons = Cardinality(left)
          /\ UserCouponsResponse(u).totalCoupons = Cardinality(mine)
      BY DEF UserCouponsResponse
    <3>8. \A c \in Coupons : answer(c).isAssignedToUser =>
             /\ answer(c).status = "redeemed" <=> answer(c).redemptionsRemaining = 0
             /\ answer(c).isLocked => answer(c).status = "locked"
      <4> HIDE DEF mine, answer
      <4> QED BY <3>1, <3>2, <3>5
    <3> HIDE DEF mine, gone, left
    <3> QED BY <3>4, <3>6, <3>7, <3>8
  <2> QED BY <2>1 DEF RedeemedMeansUsedUp, UsedBy
<1> QED BY <1>1, SoleInvariant, PTL

\* A redeemed coupon stays redeemed (coupons.service.ts:140-217).
THEOREM RedeemedStaysRedeemed == Spec /\ []CodesApart => RedeemedIsFinal
<1>1. CoreInv /\ AllFresh /\ [Next]_vars =>
        [\A c \in Coupons : status[c] = "redeemed" => status'[c] = "redeemed"]_vars
  <2> SUFFICES ASSUME CoreInv, AllFresh, [Next]_vars, NEW c \in Coupons, status[c] = "redeemed"
               PROVE  status'[c] = "redeemed"
    OBVIOUS
  <2>1. TableStep
    BY StepTables DEF AllFresh
  <2> QED BY <2>1, StoreTypes DEF TableStep, Quiet, Assigns, Locks, Unlocks, Redeems, Touches
<1> QED BY <1>1, SoleInvariant, PTL DEF Spec, RedeemedIsFinal

-------------------------------------------------------------------------------
\* The limit of a user, while no two assignments of the user count at a time.

Places == {"checkLimit", "select", "write"}
AssignOps == {"assignRandom", "assignSpecific"}

KnownBook(r) ==
  req[r].op \in AssignOps /\ pc[r] \in Places => BookOfAssignment(r) \in Books
BelowLimit(r) ==
  LET b == BookOfAssignment(r)
  IN Counted(r) => Cardinality(HeldFrom(b, req[r].user)) < MaxAssignments[b]

\* An assignment that has been let through still has room to commit.
LimitInv ==
  /\ AssignmentLimit
  /\ \A r \in Requests : KnownBook(r) /\ OwnBook(r) /\ BelowLimit(r)

LEMMA HeldIsFinite ==
  \A b, u : IsFiniteSet(HeldFrom(b, u)) /\ Cardinality(HeldFrom(b, u)) \in Nat
BY FiniteCoupons, FS_Subset, FS_CardinalityType DEF HeldFrom

\* Only the commit of an assignment adds to what users hold.
LEMMA CommitAssigns ==
  ASSUME CoreInv, NEW q \in Requests, Handler(q) \/ Failure(q), assignees' # assignees
  PROVE  /\ pc[q] = "write" /\ pc'[q] = "done" /\ req[q].op \in AssignOps
         /\ target[q] \in Coupons /\ UNCHANGED <<req, target>>
         /\ assignees' = [assignees EXCEPT ![target[q]] = @ \cup {req[q].user}]
<1>1. CASE WriteAssignment(q)
  <2>1. /\ pc[q] = "write" /\ req[q].op \in AssignOps /\ UNCHANGED <<req, target>>
        /\ assignees' = [assignees EXCEPT ![target[q]] = @ \cup {req[q].user}]
        /\ Commit(q)
    BY <1>1 DEF WriteAssignment, InsertAssignment, Rollback, storeVars, assignmentVars, AssignOps
  <2>2. pc'[q] = "done"
    BY <2>1 DEF Commit, EndTransaction, CoreInv, TypeOK, AssignOps
  <2> QED BY <2>1, <2>2 DEF CoreInv, OnItsWay
<1>2. CASE Failure(q)
  BY <1>2, FailureTables DEF storeVars, assignmentVars
<1>3. CASE Select(q)
  BY <1>3, SelectTables DEF storeVars, assignmentVars
<1>4. CASE Handler(q) /\ ~Select(q) /\ ~WriteAssignment(q)
  BY <1>4 DEF Handler, FindBook, FindCoupon, CheckUserAssignmentLimit, HasDedup, SetDedup,
     AcquireLock, ReleaseLock, Write, WriteLock, WriteUnlock, WriteRedemption, Rollback,
     storeVars, assignmentVars
<1> QED BY <1>1, <1>2, <1>3, <1>4

\* A handler that stands still keeps what it knows.
LEMMA LimitWaits ==
  ASSUME NEW r \in Requests, LimitInv, UNCHANGED <<req, assignees>>,
         pc'[r] = pc[r], target'[r] = target[r]
  PROVE  (KnownBook(r) /\ OwnBook(r) /\ BelowLimit(r))'
<1>1. BookOfAssignment(r)' = BookOfAssignment(r)
  BY DEF BookOfAssignment
<1>2. \A b, u : HeldFrom(b, u)' = HeldFrom(b, u)
  BY DEF HeldFrom
<1>3. Counted(r)' = Counted(r)
  BY <1>1 DEF Counted
<1> QED BY <1>1, <1>2, <1>3 DEF LimitInv, KnownBook, OwnBook, BelowLimit

LEMMA LimitMoves ==
  ASSUME CoreInv, LimitInv, NEW r \in Requests, Handler(r) \/ Failure(r)
  PROVE  (KnownBook(r) /\ OwnBook(r) /\ BelowLimit(r))'
<1> DEFINE b == BookOfAssignment(r)
<1>1. req' = req
  BY RequestStep DEF OthersStay
<1>2. CASE ~(req[r].op \in AssignOps /\ pc'[r] \in Places)
  BY <1>1, <1>2 DEF KnownBook, OwnBook, BelowLimit, Counted, AssignOps, Places
<1>3. CASE req[r].op \in AssignOps /\ pc'[r] \in Places
  <2>1. /\ UNCHANGED <<req, status, assignees>>
        /\ Starts(r) \/ Passes(r) \/ Picks(r)
    BY <1>3, AssignmentShape DEF AssignOps, Places
  <2>2. \A d, u : HeldFrom(d, u)' = HeldFrom(d, u)
    BY <2>1 DEF HeldFrom
  <2>3. CASE Starts(r)
    BY <2>1, <2>3 DEF Starts, KnownBook, OwnBook, BelowLimit, Counted, BookOfAssignment
  <2>4. CASE Passes(r)
    <3>1. b' = b /\ b \in Books /\ pc'[r] = "select"
      BY <1>3, <2>1, <2>4 DEF Passes, BookOfAssignment, LimitInv, KnownBook, Places
    <3>2. MaxAssignments[b] # NoLimit =>
            Cardinality(HeldFrom(b, req[r].user)) < MaxAssignments[b]
      <4>1. MaxAssignments[b] # NoLimit => MaxAssignments[b] \in Nat
        BY <3>1, StoreAssumption
      <4>2. Cardinality(HeldFrom(b, req[r].user)) \in Nat
        BY HeldIsFinite
      <4>3. ~ReachedLimit(Cardinality(HeldFrom(b, req[r].user)), MaxAssignments[b])
        BY <2>4 DEF Passes
      <4> HIDE DEF b
      <4> QED BY <4>1, <4>2, <4>3 DEF ReachedLimit
    <3> QED BY <2>1, <2>2, <3>1, <3>2 DEF KnownBook, OwnBook, BelowLimit, Counted
  <2>5. CASE Picks(r)
    <3>1. b' = b /\ pc[r] = "select" /\ pc'[r] = "write"
      BY <1>3, <2>1, <2>5 DEF Picks, BookOfAssignment, AssignOps
    <3>2. Counted(r)' => Counted(r)
      BY <2>1, <3>1 DEF Counted
    <3>3. KnownBook(r)' /\ BelowLimit(r)'
      BY <1>3, <2>1, <2>2, <3>1, <3>2 DEF LimitInv, KnownBook, BelowLimit, Places
    <3> QED BY <2>1, <2>5, <3>3 DEF Picks, OwnBook
  <2> QED BY <2>1, <2>3, <2>4, <2>5
<1> QED BY <1>2, <1>3

LEMMA LimitGrows ==
  ASSUME CoreInv, LimitInv, CountsApart, NEW q \in Requests, Handler(q) \/ Failure(q),
         assignees' # assignees
  PROVE  /\ AssignmentLimit'
         /\ \A r \in Requests \ {q} : (KnownBook(r) /\ OwnBook(r) /\ BelowLimit(r))'
<1> DEFINE c == target[q]
           v == req[q].user
<1>1. /\ pc[q] = "write" /\ req[q].op \in AssignOps /\ c \in Coupons
      /\ UNCHANGED <<req, target>>
      /\ assignees' = [assignees EXCEPT ![c] = @ \cup {v}]
  BY CommitAssigns
<1>2. BookOfAssignment(q) = BookOf[c] /\ BookOf[c] \in Books
  BY <1>1, StoreAssumption DEF BookOfAssignment, LimitInv, OwnBook, AssignOps
<1>3. \A b, u : HeldFrom(b, u)' = IF b = BookOf[c] /\ u = v THEN HeldFrom(b, u) \cup {c}
                                                            ELSE HeldFrom(b, u)
  BY <1>1 DEF HeldFrom, CoreInv, TypeOK, StoreType
<1>4. MaxAssignments[BookOf[c]] # NoLimit =>
        /\ Counted(q)
        /\ Cardinality(HeldFrom(BookOf[c], v)) < MaxAssignments[BookOf[c]]
  BY <1>1, <1>2 DEF Counted, LimitInv, BelowLimit, AssignOps
<1>5. AssignmentLimit'
  <2> SUFFICES ASSUME NEW b \in Books, NEW u \in Users, MaxAssignments[b] # NoLimit
               PROVE  Cardinality(HeldFrom(b, u)') <= MaxAssignments[b]
    BY DEF AssignmentLimit
  <2>1. MaxAssignments[b] \in Nat /\ Cardinality(HeldFrom(b, u)) \in Nat
    BY StoreAssumption, HeldIsFinite
  <2>2. CASE b = BookOf[c] /\ u = v
    <3>1. HeldFrom(b, u)' = HeldFrom(b, u) \cup {c}
      BY <1>3, <2>2
    <3>2. Cardinality(HeldFrom(b, u) \cup {c}) <= Cardinality(HeldFrom(b, u)) + 1
      <4> DEFINE H == HeldFrom(b, u)
      <4>1. IsFiniteSet(H) /\ Cardinality(H) \in Nat
        BY HeldIsFinite
      <4> HIDE DEF H
      <4>2. Cardinality(H \cup {c}) = IF c \in H THEN Cardinality(H) ELSE Cardinality(H) + 1
        BY <4>1, FS_AddElement
      <4>3. Cardinality(H \cup {c}) <= Cardinality(H) + 1
        BY <4>1, <4>2
      <4> QED BY <4>3 DEF H
    <3>3. Cardinality(HeldFrom(b, u) \cup {c}) \in Nat
      BY HeldIsFinite, FS_AddElement, FS_CardinalityType
    <3>4. Cardinality(HeldFrom(b, u)) < MaxAssignments[b]
      BY <1>4, <2>2
    <3> QED BY <2>1, <3>1, <3>2, <3>3, <3>4
  <2>3. CASE ~(b = BookOf[c] /\ u = v)
    BY <1>3, <2>3 DEF LimitInv, AssignmentLimit
  <2> QED BY <2>2, <2>3
<1>6. ASSUME NEW r \in Requests \ {q}
      PROVE  (KnownBook(r) /\ OwnBook(r) /\ BelowLimit(r))'
  <2>1. pc'[r] = pc[r] /\ target'[r] = target[r]
    BY RequestStep DEF OthersStay
  <2>2. BookOfAssignment(r)' = BookOfAssignment(r)
    BY <1>1 DEF BookOfAssignment
  <2>3. KnownBook(r)' /\ OwnBook(r)'
    BY <1>1, <2>1, <2>2 DEF LimitInv, KnownBook, OwnBook
  <2>4. ASSUME Counted(r)
        PROVE  ~(BookOfAssignment(r) = BookOf[c] /\ req[r].user = v)
    BY <1>2, <1>4, <2>4 DEF CountsApart, Counted
  <2>5. Counted(r)' => Counted(r)
    BY <1>1, <2>1, <2>2 DEF Counted
  <2>6. BelowLimit(r)'
    BY <1>1, <1>3, <2>2, <2>4, <2>5 DEF LimitInv, BelowLimit
  <2> QED BY <2>3, <2>6
<1> QED BY <1>5, <1>6

LEMMA LimitStepApart ==
  ASSUME CoreInv, LimitInv, CountsApart, [Next]_vars
  PROVE  LimitInv'
<1>1. CASE UNCHANGED <<req, pc, target, assignees>>
  <2>1. AssignmentLimit'
    BY <1>1 DEF LimitInv, AssignmentLimit, HeldFrom
  <2> QED BY <1>1, <2>1, LimitWaits DEF LimitInv
<1>2. ASSUME NEW q \in Requests, Handler(q) \/ Failure(q)
      PROVE  LimitInv'
  <2>1. (KnownBook(q) /\ OwnBook(q) /\ BelowLimit(q))'
    BY <1>2, LimitMoves
  <2>2. CASE assignees' # assignees
    BY <1>2, <2>1, <2>2, LimitGrows DEF LimitInv
  <2>3. CASE assignees' = assignees
    <3>1. /\ req' = req
          /\ \A r \in Requests \ {q} : pc'[r] = pc[r] /\ target'[r] = target[r]
      BY <1>2, RequestStep DEF OthersStay
    <3>2. AssignmentLimit'
      BY <2>3 DEF LimitInv, AssignmentLimit, HeldFrom
    <3> QED BY <2>1, <2>3, <3>1, <3>2, LimitWaits DEF LimitInv
  <2> QED BY <2>2, <2>3
<1>3. CASE Environment \/ UNCHANGED vars
  BY <1>1, <1>3, EnvironmentShape DEF Around, Data, vars, handlerVars, storeVars, assignmentVars
<1> QED BY <1>2, <1>3 DEF Next

\* While no two assignments of a user are between count and commit, the limit of
\* a user holds (coupons.service.ts:68-131, 850-872).
THEOREM AssignmentsWithinLimit == Spec /\ []CountsApart => []AssignmentLimit
<1>1. Init => LimitInv
  <2> SUFFICES ASSUME Init PROVE LimitInv
    OBVIOUS
  <2>1. AssignmentLimit
    BY DEF Init, StoreInit, AssignmentLimit
  <2>2. ASSUME NEW r \in Requests PROVE ~(req[r].op \in AssignOps /\ pc[r] \in Places)
    <3>1. pc[r] = FirstStep(req[r].op)
      BY DEF Init
    <3> QED BY <3>1 DEF FirstStep, AssignOps, Places
  <2> QED BY <2>1, <2>2 DEF LimitInv, KnownBook, OwnBook, BelowLimit, Counted, AssignOps, Places
<1>2. CoreInv /\ LimitInv /\ CountsApart /\ [Next]_vars => LimitInv'
  BY LimitStepApart
<1>3. LimitInv => AssignmentLimit
  BY DEF LimitInv
<1> QED BY <1>1, <1>2, <1>3, CoreInvariant, PTL DEF Spec

\* What the run of ApartSpec checks, for every value of the constants.
THEOREM ApartKeepsPromises ==
  ApartSpec => /\ []SoleAssignee /\ []LockColumnsAgree /\ []RedeemedMeansUsedUp
               /\ RedeemedIsFinal
               /\ []AssignmentLimit
BY ApartSpecIsApart, SoleAssignees, LockColumnsAlwaysAgree, QueriesAgree,
   RedeemedStaysRedeemed, AssignmentsWithinLimit, PTL

\* Assignments at random need nobody to keep them apart: FOR UPDATE SKIP LOCKED
\* does (coupons.service.ts:341-376).
THEOREM RandomKeepsPromises ==
  ASSUME RandomOnly
  PROVE  Spec => /\ []SoleAssignee /\ []LockColumnsAgree /\ []RedeemedMeansUsedUp
                 /\ RedeemedIsFinal
BY RandomIsApart, SoleAssignees, LockColumnsAlwaysAgree, QueriesAgree,
   RedeemedStaysRedeemed, PTL

-------------------------------------------------------------------------------
\* Double submits, while no two redemptions set one flag at a time and no flag
\* expires.

\* A redemption that has set its flag and was not answered before its commit.
PastDedup(r) ==
  /\ req[r].op = "redeem"
  /\ pc[r] \in {"acquire", "select", "write", "release"} \/ r \in committed

\* The flag of a coupon and a user lets one redemption by, and none after it.
SubmitInv ==
  /\ \A r \in Requests : PastDedup(r) => DedupKey(r) \in dedup
  /\ \A r, q \in Requests :
       r # q /\ PastDedup(q) /\ (PastDedup(r) \/ pc[r] = "setDedup") =>
         DedupKey(r) # DedupKey(q)

Asks(r) ==
  /\ DedupKey(r) \notin dedup /\ UNCHANGED dedup
  /\ PastDedup(r)' => PastDedup(r)
SetsFlag(r) == pc[r] = "setDedup" /\ dedup' = dedup \cup {DedupKey(r)}
Stays(r) ==
  /\ pc'[r] # "setDedup" /\ dedup \subseteq dedup'
  /\ PastDedup(r)' => PastDedup(r)

LEMMA SubmitShape ==
  ASSUME CoreInv, NEW r \in Requests, Handler(r) \/ Failure(r)
  PROVE  Asks(r) \/ SetsFlag(r) \/ Stays(r)
<1>1. /\ TypeOK /\ OnItsWay(r) /\ pc \in [Requests -> PCs]
      /\ Moves(r) \/ Ends(r) \/ Takes(r) \/ Writes(r)
  BY RequestStep DEF CoreInv, TypeOK
<1>2. req' = req /\ (committed' = committed \/ (pc[r] = "write" /\ pc'[r] \in {"release", "done"}))
  BY <1>1 DEF Moves, Ends, Takes, Writes, OthersStay
<1> USE <1>1 DEF Goto, Reply
<1>3. CASE HasDedup(r)
  <2>1. /\ DedupKey(r) \in dedup => pc'[r] = "done"
        /\ pc'[r] \in {"setDedup", "done"} /\ dedup' = dedup /\ pc[r] = "hasDedup"
    BY <1>3 DEF HasDedup, redisVars
  <2> HIDE DEF Goto, Reply
  <2> QED BY <1>2, <2>1 DEF Asks, Stays, PastDedup
<1>4. CASE SetDedup(r)
  BY <1>4 DEF SetDedup, SetsFlag
<1>5. CASE CacheFailure(r)
  <2>1. pc'[r] = "done" /\ dedup \subseteq dedup' /\ pc[r] # "write"
    BY <1>5 DEF CacheFailure, redisVars
  <2> HIDE DEF Goto, Reply
  <2> QED BY <1>2, <2>1 DEF Stays, PastDedup
<1>6. CASE (Handler(r) \/ Failure(r)) /\ ~HasDedup(r) /\ ~SetDedup(r) /\ ~CacheFailure(r)
  <2>1. dedup' = dedup
    BY <1>6 DEF Handler, FindBook, FindCoupon, CheckUserAssignmentLimit, AcquireLock, ReleaseLock,
       Select, SelectAvailable, SelectForAssignment, SelectNothing, SelectForLock, SelectForUnlock,
       SelectForRedemption, Write, WriteAssignment, WriteLock, WriteUnlock, WriteRedemption,
       Failure, DatabaseFailure, Crash, redisVars
  <2>2. /\ pc'[r] \notin {"setDedup", "acquire"}
        /\ req[r].op = "redeem" /\ pc'[r] \in {"select", "write", "release"} =>
             pc[r] \in {"acquire", "select", "write", "release"}
    <3>1. CASE \/ FindBook(r) \/ FindCoupon(r) \/ CheckUserAssignmentLimit(r)
               \/ AcquireLock(r) \/ ReleaseLock(r)
      BY <3>1 DEF FindBook, FindCoupon, ValidateBook, CheckUserAssignmentLimit, AcquireLock,
         ReleaseLock, OnItsWay
    <3>2. CASE Select(r) \/ Write(r)
      <4>1. pc[r] \in {"select", "write"}
        BY <3>2 DEF Select, SelectAvailable, SelectForAssignment, SelectNothing, SelectForLock,
           SelectForUnlock, SelectForRedemption, Write, WriteAssignment, WriteLock, WriteUnlock,
           WriteRedemption
      <4>2. Ends(r) \/ Takes(r) \/ Writes(r)
        BY <1>1, <4>1, <3>2, SelectShape, WriteShape DEF CoreInv, SnapshotStillFresh, FreshFor
      <4> QED BY <4>1, <4>2 DEF Ends, Takes, Writes
    <3>3. CASE DatabaseFailure(r) \/ Crash(r)
      BY <3>3 DEF DatabaseFailure, Crash, Rollback, EndTransaction
    <3> QED BY <1>6, <3>1, <3>2, <3>3 DEF Handler, Failure
  <2> HIDE DEF Goto, Reply
  <2> QED BY <1>2, <2>1, <2>2 DEF Stays, PastDedup
<1> QED BY <1>3, <1>4, <1>5, <1>6 DEF Failure

LEMMA SubmitStep ==
  ASSUME CoreInv, "dedupTtl" \notin Events, SubmitInv, DedupsApart, [Next]_vars
  PROVE  SubmitInv'
<1>1. CASE UNCHANGED <<req, pc, dedup, committed>>
  BY <1>1 DEF SubmitInv, PastDedup, DedupKey
<1>2. CASE Environment \/ UNCHANGED vars
  BY <1>1, <1>2 DEF Environment, ExpireLock, ExpireDedup, DeactivateBook, Clock, handlerVars,
     redisVars, vars
<1>3. ASSUME NEW r \in Requests, Handler(r) \/ Failure(r)
      PROVE  SubmitInv'
  <2>1. /\ req' = req
        /\ \A q \in Requests \ {r} : pc'[q] = pc[q]
        /\ committed' = committed \/ committed' = committed \cup {r}
    BY <1>3, RequestStep DEF OthersStay, Moves, Ends, Takes, Writes
  <2>2. \A q \in Requests : DedupKey(q)' = DedupKey(q)
    BY <2>1 DEF DedupKey
  <2>3. \A q \in Requests \ {r} : PastDedup(q)' <=> PastDedup(q)
    BY <2>1 DEF PastDedup
  <2>4. pc[r] = "setDedup" => ~PastDedup(r)
    BY DEF PastDedup, CoreInv, CommitIsLast
  <2>5. CASE Asks(r)
    BY <2>1, <2>2, <2>3, <2>5 DEF Asks, SubmitInv
  <2>6. CASE SetsFlag(r)
    BY <2>1, <2>2, <2>3, <2>4, <2>6 DEF SetsFlag, SubmitInv, DedupsApart
  <2>7. CASE Stays(r)
    BY <2>1, <2>2, <2>3, <2>7 DEF Stays, SubmitInv
  <2> QED BY <1>3, <2>5, <2>6, <2>7, SubmitShape
<1> QED BY <1>2, <1>3 DEF Next

\* One redemption of a coupon by a user goes through while its flag lives, if no
\* two of them are between hasDedup and setDedup together
\* (coupons.service.ts:746-758).
THEOREM OneSubmitGoesThrough ==
  ASSUME "dedupTtl" \notin Events PROVE Spec /\ []DedupsApart => []NoDoubleSubmit
<1>1. Init => SubmitInv
  <2> SUFFICES ASSUME Init, NEW r \in Requests
               PROVE  ~PastDedup(r) /\ pc[r] # "setDedup"
    BY DEF SubmitInv
  <2>1. pc[r] = FirstStep(req[r].op) /\ req[r].op \in Ops /\ committed = {}
    BY RequestAssumption DEF Init
  <2> QED BY <2>1 DEF FirstStep, Ops, PastDedup
<1>2. CoreInv /\ SubmitInv /\ DedupsApart /\ [Next]_vars => SubmitInv'
  BY SubmitStep
<1>3. CoreInv /\ SubmitInv => NoDoubleSubmit
  <2> SUFFICES ASSUME CoreInv, SubmitInv, NEW c \in Coupons, NEW u \in Users
               PROVE  Cardinality(RedemptionsOf(c, u)) <= 1
    BY DEF NoDoubleSubmit
  <2>1. \A r, q \in RedemptionsOf(c, u) : r = q
    <3> SUFFICES ASSUME NEW r \in RedemptionsOf(c, u), NEW q \in RedemptionsOf(c, u), r # q
                 PROVE  FALSE
      OBVIOUS
    <3>1. /\ r \in Requests /\ q \in Requests
          /\ PastDedup(r) /\ PastDedup(q) /\ DedupKey(r) = DedupKey(q)
      BY DEF RedemptionsOf, DedupKey, PastDedup, CoreInv, TypeOK
    <3> QED BY <3>1 DEF SubmitInv
  <2>2. CASE RedemptionsOf(c, u) = {}
    BY <2>2, FS_EmptySet
  <2>3. CASE RedemptionsOf(c, u) # {}
    <3>1. PICK r \in RedemptionsOf(c, u) : TRUE
      BY <2>3
    <3>2. RedemptionsOf(c, u) = {r}
      BY <2>1, <3>1
    <3>3. Cardinality({r}) = 1
      BY FS_Singleton
    <3> QED BY <3>2, <3>3
  <2> QED BY <2>2, <2>3
<1> QED BY <1>1, <1>2, <1>3, CoreInvariant, PTL DEF Spec

-------------------------------------------------------------------------------
\* The Redis locks, while no command fails, no lock expires under its request
\* and no process dies.

RedisWorks == Events \cap {"redis", "ttl", "crash"} = {}

RedisInv ==
  /\ \A r \in Requests : InCriticalSection(r) => LockKey(r) \in redisLocks
  /\ RedisLockHasOneOwner

\* A step of a request, as its lock key sees it.
Enters(r) ==
  /\ LockKey(r) \notin redisLocks /\ redisLocks' = redisLocks \cup {LockKey(r)}
  /\ ~InCriticalSection(r) /\ InCriticalSection(r)'
Leaves(r) ==
  /\ InCriticalSection(r) /\ ~InCriticalSection(r)'
  /\ redisLocks' = redisLocks \ {LockKey(r)}
Keeps(r) ==
  /\ InCriticalSection(r)' <=> InCriticalSection(r)
  /\ redisLocks' = redisLocks

LEMMA KeyMoves ==
  ASSUME CoreInv, RedisWorks, NEW r \in Requests, Handler(r) \/ Failure(r)
  PROVE  Enters(r) \/ Leaves(r) \/ Keeps(r)
<1> USE DEF InCriticalSection, Goto, Reply
<1>1. TypeOK /\ OnItsWay(r)
  BY DEF CoreInv
<1>2. pc \in [Requests -> PCs]
  BY <1>1 DEF TypeOK
<1>3. CASE AcquireLock(r)
  <2>1. pc[r] = "acquire" /\ req[r].op \in {"lock", "redeem"} /\ req' = req
    BY <1>1, <1>3 DEF AcquireLock, OnItsWay
  <2>2. \/ pc'[r] = "done" /\ redisLocks' = redisLocks
        \/ /\ LockKey(r) \notin redisLocks
           /\ redisLocks' = redisLocks \cup {LockKey(r)} /\ pc'[r] = "select"
    BY <1>2, <1>3 DEF AcquireLock
  <2> HIDE DEF Goto, Reply
  <2> QED BY <2>1, <2>2 DEF Enters, Keeps
<1>4. CASE ReleaseLock(r)
  <2>1. /\ pc[r] = "release" /\ req' = req /\ pc'[r] = "done"
        /\ redisLocks' = redisLocks \ {LockKey(r)}
    BY <1>2, <1>4 DEF ReleaseLock
  <2>2. req[r].op \in {"lock", "redeem"}
    BY <1>1, <2>1 DEF OnItsWay
  <2> QED BY <2>1, <2>2 DEF Leaves
<1>5. CASE \/ FindBook(r) \/ FindCoupon(r) \/ CheckUserAssignmentLimit(r)
           \/ HasDedup(r) \/ SetDedup(r)
  <2>1. /\ req' = req /\ redisLocks' = redisLocks
        /\ pc[r] \in {"findBook", "findCoupon", "checkLimit", "hasDedup", "setDedup"}
    BY <1>5 DEF FindBook, FindCoupon, CheckUserAssignmentLimit, HasDedup, SetDedup, redisVars
  <2>2. pc'[r] \in {"checkLimit", "select", "setDedup", "acquire", "done"}
    BY <1>2, <1>5 DEF FindBook, FindCoupon, ValidateBook, CheckUserAssignmentLimit,
       HasDedup, SetDedup
  <2>3. pc'[r] \in {"checkLimit", "select"} =>
          req[r].op \in {"assignRandom", "assignSpecific"}
    <3>1. pc[r] \in {"findBook", "findCoupon", "checkLimit"} =>
            req[r].op \in {"assignRandom", "assignSpecific"}
      BY <1>1 DEF OnItsWay
    <3>2. pc[r] \in {"hasDedup", "setDedup"} => pc'[r] \notin {"checkLimit", "select"}
      BY <1>2, <1>5 DEF FindBook, FindCoupon, CheckUserAssignmentLimit, HasDedup, SetDedup
    <3> QED BY <2>1, <3>1, <3>2
  <2> HIDE DEF Goto, Reply
  <2> QED BY <2>1, <2>2, <2>3 DEF Keeps
<1>6. ASSUME NEW a, EndTransaction(r, a), pc[r] \in {"select", "write"},
             UNCHANGED <<req, redisVars>>
      PROVE  Keeps(r)
  BY <1>2, <1>6 DEF EndTransaction, Keeps, redisVars
<1>7. CASE Select(r)
  <2>1. pc[r] = "select" /\ UNCHANGED <<req, redisVars>>
    BY <1>7 DEF Select, SelectAvailable, SelectForAssignment, SelectNothing, SelectForLock,
       SelectForUnlock, SelectForRedemption
  <2>2. (\E a : EndTransaction(r, a)) \/ Goto(r, "write")
    BY <1>7 DEF Select, SelectAvailable, SelectForAssignment, SelectNothing, SelectForLock,
       SelectForUnlock, SelectForRedemption, ReadRows, Rollback
  <2>3. Goto(r, "write") => Keeps(r)
    BY <1>2, <2>1 DEF Keeps, redisVars
  <2> QED BY <1>6, <2>1, <2>2, <2>3
<1>8. CASE Write(r)
  <2>1. pc[r] = "write" /\ UNCHANGED <<req, redisVars>>
    BY <1>8 DEF Write, WriteAssignment, WriteLock, WriteUnlock, WriteRedemption
  <2>2. \E a : EndTransaction(r, a)
    BY <1>8 DEF Write, WriteAssignment, WriteLock, WriteUnlock, WriteRedemption, Rollback, Commit
  <2> QED BY <1>6, <2>1, <2>2
<1>9. CASE Failure(r)
  <2>1. DatabaseFailure(r)
    BY <1>9 DEF Failure, CacheFailure, Crash, RedisWorks
  <2>2. CASE Rollback(r, "serverError") /\ pc[r] \in {"select", "write"}
    BY <1>6, <2>1, <2>2 DEF DatabaseFailure, Rollback
  <2>3. CASE pc[r] \in {"findBook", "findCoupon", "checkLimit"} /\ Reply(r, "serverError")
    BY <1>2, <2>1, <2>3 DEF DatabaseFailure, Keeps, redisVars
  <2> QED BY <2>1, <2>2, <2>3 DEF DatabaseFailure
<1> QED BY <1>3, <1>4, <1>5, <1>7, <1>8, <1>9 DEF Handler

\* A step of the environment drops keys of nobody.
LEMMA KeysExpire ==
  ASSUME RedisWorks, RedisInv, Environment
  PROVE  /\ UNCHANGED <<req, pc>>
         /\ UNCHANGED redisLocks
            \/ \E k : /\ redisLocks' = redisLocks \ {k}
                      /\ \A r \in Requests : InCriticalSection(r) => LockKey(r) # k
BY DEF Environment, ExpireLock, ExpireDedup, DeactivateBook, Clock, RedisWorks,
   handlerVars, redisVars

LEMMA RedisStep ==
  ASSUME CoreInv, RedisWorks, RedisInv, [Next]_vars
  PROVE  RedisInv'
<1>1. CASE UNCHANGED <<req, pc, redisLocks>>
  BY <1>1 DEF RedisInv, RedisLockHasOneOwner, InCriticalSection, LockKey
<1>2. CASE UNCHANGED vars
  BY <1>1, <1>2 DEF vars, handlerVars, redisVars
<1>3. CASE Environment
  <2>1. UNCHANGED <<req, pc>>
    BY <1>3, KeysExpire
  <2>2. ASSUME NEW k, redisLocks' = redisLocks \ {k},
               \A r \in Requests : InCriticalSection(r) => LockKey(r) # k
        PROVE  RedisInv'
    BY <2>1, <2>2 DEF RedisInv, RedisLockHasOneOwner, InCriticalSection,
       LockKey
  <2> QED BY <1>1, <1>3, <2>1, <2>2, KeysExpire
<1>4. ASSUME NEW r \in Requests, Handler(r) \/ Failure(r)
      PROVE  RedisInv'
  <2>1. /\ req' = req
        /\ \A q \in Requests \ {r} : pc'[q] = pc[q]
    BY <1>4, RequestStep DEF OthersStay
  <2>2. Enters(r) \/ Leaves(r) \/ Keeps(r)
    BY <1>4, KeyMoves
  <2>3. \A q \in Requests : LockKey(q)' = LockKey(q)
    BY <2>1 DEF LockKey
  <2>4. \A q \in Requests \ {r} : InCriticalSection(q)' <=> InCriticalSection(q)
    BY <2>1 DEF InCriticalSection
  <2>6. CASE Enters(r)
    BY <2>3, <2>4, <2>6 DEF Enters, RedisInv, RedisLockHasOneOwner
  <2>7. CASE Leaves(r)
    BY <2>3, <2>4, <2>7 DEF Leaves, RedisInv, RedisLockHasOneOwner
  <2>8. CASE Keeps(r)
    BY <2>3, <2>4, <2>8 DEF Keeps, RedisInv, RedisLockHasOneOwner
  <2> QED BY <2>2, <2>6, <2>7, <2>8
<1> QED BY <1>2, <1>3, <1>4 DEF Next

LEMMA RedisInit == Init => RedisInv
<1> SUFFICES ASSUME Init PROVE RedisInv
  OBVIOUS
<1>1. /\ redisLocks = {} /\ \A r \in Requests : pc[r] = FirstStep(req[r].op)
  BY DEF Init
<1>2. \A r \in Requests : req[r].op \in Ops
  BY RequestAssumption DEF Init
<1>3. \A r \in Requests : ~InCriticalSection(r)
  BY <1>1, <1>2 DEF InCriticalSection, FirstStep, Ops
<1> QED BY <1>1, <1>3 DEF RedisInv, RedisLockHasOneOwner

\* While Redis works and no process dies, the lock keys of lockCoupon and
\* redeemCoupon are exactly those of the requests between their SET NX and
\* their DEL, one each (coupons.service.ts:140-222, 766-812).
THEOREM RedisLocksHaveOneOwner ==
  ASSUME RedisWorks PROVE Spec => []RedisLockHasOneOwner
<1>1. CoreInv /\ RedisInv /\ [Next]_vars => RedisInv'
  BY RedisStep
<1> QED BY <1>1, RedisInit, CoreInvariant, PTL DEF Spec, RedisInv
===============================================================================
