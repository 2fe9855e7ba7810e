--------------------------- MODULE MCCouponsService ---------------------------
(***************************************************************************)
(* Values of the constants for TLC: one book, and sets of calls.           *)
(***************************************************************************)
EXTENDS CouponsServiceProperties, TLC

CONSTANTS MaxRedemptionsOfBook, MaxAssignmentsOfBook

MCBookOf == [c \in Coupons |-> CHOOSE b \in Books : TRUE]
MCMaxRedemptions == [b \in Books |-> MaxRedemptionsOfBook]
MCMaxAssignments == [b \in Books |-> MaxAssignmentsOfBook]

RandomCalls(books) ==
  [op : {"assignRandom"}, user : Users, code : {UnknownCode}, book : books]

CodeCalls(ops, codes) ==
  [op : ops, user : Users, code : codes, book : {UnknownBook}]

CodeOps == Ops \ {"assignRandom"}

AllCalls == RandomCalls(Books) \cup CodeCalls(CodeOps, Coupons)

AnyCalls == RandomCalls(Books \cup {UnknownBook}) \cup CodeCalls(CodeOps, Codes)

SpecificCalls == CodeCalls({"assignSpecific"}, Coupons)

AssignCalls == RandomCalls(Books) \cup SpecificCalls

RedeemCalls == CodeCalls({"redeem"}, Coupons)

\* What the assignee of a coupon may do with it.
HolderCalls == CodeCalls({"lock", "unlock", "redeem"}, Coupons)

Symmetry ==
  Permutations(Requests) \cup Permutations(Users) \cup Permutations(Coupons)
===============================================================================
