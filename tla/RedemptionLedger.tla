--------------------------- MODULE RedemptionLedger ---------------------------
(***************************************************************************)
(* What the coupon service promises about rights and their use, with no    *)
(* requests, locks, cache or failures: a user is granted a coupon once and *)
(* for ever, and uses it one unit at a time, never beyond its allowance.   *)
(***************************************************************************)
EXTENDS Integers

CONSTANTS
  Users,
  Coupons,
  Allowance,  \* uses each holder of a coupon has, or Unlimited
  Unlimited

VARIABLES
  holders,  \* who has been granted a coupon
  used      \* how many times each of them has used it

vars == <<holders, used>>

Init ==
  /\ holders \in [Coupons -> SUBSET Users]
  /\ used = [c \in Coupons |-> [u \in Users |-> 0]]

Grant(c, u) ==
  /\ u \notin holders[c]
  /\ holders' = [holders EXCEPT ![c] = @ \cup {u}]
  /\ UNCHANGED used

Use(c, u) ==
  /\ u \in holders[c]
  /\ Allowance[c] = Unlimited \/ used[c][u] < Allowance[c]
  /\ used' = [used EXCEPT ![c][u] = @ + 1]
  /\ UNCHANGED holders

Next == \E c \in Coupons, u \in Users : Grant(c, u) \/ Use(c, u)

Spec == Init /\ [][Next]_vars
===============================================================================
