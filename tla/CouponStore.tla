----------------------------- MODULE CouponStore ------------------------------
(***************************************************************************)
(* The three PostgreSQL tables the coupon services share (coupon_books,    *)
(* coupons, coupon_assignments) and the pure status rules of the services. *)
(* One function per column that some operation writes; the identity of an  *)
(* assignment row is its unique pair (coupon, user).                       *)
(***************************************************************************)
EXTENDS Integers, FiniteSets

CONSTANTS
  Users,           \* user ids, as the JWT or the API call names them
  Coupons,         \* rows of coupons; the row and its unique code are one value
  Books,           \* rows of coupon_books
  BookOf,          \* coupons.coupon_book_id, never updated
  MaxRedemptions,  \* coupon_books.max_redemptions_per_user, never updated
  MaxAssignments,  \* coupon_books.max_assignments_per_user, never updated
  NoLimit          \* SQL NULL in one of the two columns above

\* The DTO that creates a book takes NULL or an integer of at least 1.
ASSUME StoreAssumption ==
  /\ BookOf \in [Coupons -> Books]
  /\ MaxRedemptions \in [Books -> (Nat \ {0}) \cup {NoLimit}]
  /\ MaxAssignments \in [Books -> (Nat \ {0}) \cup {NoLimit}]
  /\ NoLimit \notin Nat

\* A user counts the coupons it holds of one book, which must be a number.
ASSUME FiniteCoupons == IsFiniteSet(Coupons)

VARIABLES
  status,           \* coupons.status
  version,          \* coupons.version, the optimistic lock
  assignees,        \* the users with an assignment row of the coupon
  redemptionCount,  \* coupon_assignments.redemption_count
  lockState,        \* coupon_assignments.locked_at and lock_expires_at
  bookActive,       \* coupon_books.isActive
  bookPhase         \* where the clock is relative to valid_from, valid_until

couponVars == <<status, version>>
assignmentVars == <<assignees, redemptionCount, lockState>>
bookVars == <<bookActive, bookPhase>>
storeVars == <<couponVars, assignmentVars, bookVars>>

\* 'expired' is a member of the enum that no statement of the services writes.
CouponStatus == {"available", "assigned", "locked", "redeemed", "expired"}

\* Both columns NULL; both set and lock_expires_at ahead; or behind the clock.
LockState == {"none", "active", "lapsed"}

BookPhase == {"future", "open", "closed"}

StoreType ==
  /\ status \in [Coupons -> CouponStatus]
  /\ version \in [Coupons -> Nat \ {0}]
  /\ assignees \in [Coupons -> SUBSET Users]
  /\ redemptionCount \in [Coupons -> [Users -> Nat]]
  /\ lockState \in [Coupons -> [Users -> LockState]]
  /\ bookActive \in [Books -> BOOLEAN]
  /\ bookPhase \in [Books -> BookPhase]

-------------------------------------------------------------------------------
\* The rules the services apply to a row they have read.

ValidCouponBook(b) == bookActive[b] /\ bookPhase[b] = "open"

\* The rows a query counts or joins for one user.
Assigned(c, u) == c \in Coupons /\ u \in assignees[c]
HeldFrom(b, u) == {c \in Coupons : BookOf[c] = b /\ u \in assignees[c]}

\* Slip: a redeemed coupon may be locked and redeemed as well.
AnyAssignedStatus(s) == s \in {"assigned", "locked", "redeemed"}

IsValidStatusForRedemption(s) == s \in {"assigned", "locked"}

\* Slip: off by one, the limit itself is still allowed.
PassedLimit(n, max) == max # NoLimit /\ n > max

ReachedLimit(n, max) == max # NoLimit /\ n >= max

\* Both isFullyRedeemed and the guard of a redemption compare a count this way.
IsFullyRedeemed(n, max) == ReachedLimit(n, max)

\* Slip: a coupon with redemptions left goes back to where it came from.
StatusBackToPool(n, max) ==
  IF IsFullyRedeemed(n, max) THEN "redeemed" ELSE "available"

StatusAfterRedemption(n, max) ==
  IF IsFullyRedeemed(n, max) THEN "redeemed" ELSE "assigned"

\* calculateRemainingRedemptions
RemainingRedemptions(c, u) ==
  IF MaxRedemptions[BookOf[c]] = NoLimit THEN NoLimit
  ELSE MaxRedemptions[BookOf[c]] - redemptionCount[c][u]

\* isCouponLocked, and the getter of the assignment: a lock that has lapsed is
\* none, though the status of its coupon still says locked.
IsCouponLocked(c, u) == Assigned(c, u) /\ lockState[c][u] = "active"

\* getCouponStatus, which any user may ask about any coupon.
CouponStatusResponse(c, u) ==
  IF Assigned(c, u)
  THEN [status |-> status[c], isAssignedToUser |-> TRUE,
        isLocked |-> IsCouponLocked(c, u), redemptionCount |-> redemptionCount[c][u],
        redemptionsRemaining |-> RemainingRedemptions(c, u)]
  ELSE [status |-> status[c], isAssignedToUser |-> FALSE, isLocked |-> FALSE]

\* getUserCoupons, with countByStatus and countByNotStatus of its items.
UserCoupons(u) == {c \in Coupons : Assigned(c, u)}

UserCouponsResponse(u) ==
  [totalCoupons     |-> Cardinality(UserCoupons(u)),
   availableCoupons |-> Cardinality({c \in UserCoupons(u) : status[c] # "redeemed"}),
   redeemedCoupons  |-> Cardinality({c \in UserCoupons(u) : status[c] = "redeemed"})]

\* The state after any finished calls that assigned some coupons, each to one
\* user and none to a user at its limit, in active books that have not closed.
StoreInit ==
  /\ assignees \in [Coupons -> {{}} \cup {{u} : u \in Users}]
  /\ \A b \in Books, u \in Users :
       MaxAssignments[b] # NoLimit =>
         Cardinality(HeldFrom(b, u)) <= MaxAssignments[b]
  /\ status = [c \in Coupons |-> IF assignees[c] = {} THEN "available"
                                                     ELSE "assigned"]
  /\ version = [c \in Coupons |-> IF assignees[c] = {} THEN 1 ELSE 2]
  /\ redemptionCount = [c \in Coupons |-> [u \in Users |-> 0]]
  /\ lockState = [c \in Coupons |-> [u \in Users |-> "none"]]
  /\ bookActive = [b \in Books |-> TRUE]
  /\ bookPhase \in [Books -> BookPhase \ {"closed"}]

-------------------------------------------------------------------------------
\* The clock, which no service sets.

\* valid_from or valid_until of the book goes by.
BookClock(b) ==
  /\ bookPhase[b] # "closed"
  /\ bookPhase' = [bookPhase EXCEPT ![b] = IF @ = "future" THEN "open"
                                                           ELSE "closed"]
  /\ UNCHANGED <<couponVars, assignmentVars, bookActive>>

\* lock_expires_at of the assignment goes by; no code runs when it does.
LapseLock(c, u) ==
  /\ lockState[c][u] = "active"
  /\ lockState' = [lockState EXCEPT ![c][u] = "lapsed"]
  /\ UNCHANGED <<couponVars, assignees, redemptionCount, bookVars>>
===============================================================================
