----------------------------- MODULE CodeRegistry -----------------------------
(***************************************************************************)
(* What the coupon book service promises about books and codes, with no    *)
(* requests, transactions or failures: a code is registered once, in one   *)
(* book, together with the other codes of its upload and with their        *)
(* number; after that it stays.  Only closing a book may leave its total   *)
(* short of its codes.                                                     *)
(***************************************************************************)
EXTENDS Integers, FiniteSets

CONSTANTS
  Books,
  Codes,
  NoBook  \* the book of a code that is not registered

VARIABLES
  books,   \* the books that exist
  open,    \* whether a book still takes new uploads
  bookOf,  \* where a code is registered
  total    \* how many codes a book claims to have

vars == <<books, open, bookOf, total>>

Init ==
  /\ books \in SUBSET Books
  /\ open = [b \in Books |-> TRUE]
  /\ bookOf = [c \in Codes |-> NoBook]
  /\ total = [b \in Books |-> 0]

Create(b) ==
  /\ b \notin books
  /\ books' = books \cup {b}
  /\ UNCHANGED <<open, bookOf, total>>

\* The book may have been closed since the upload was let in.
Register(b, new) ==
  /\ b \in books
  /\ \A c \in new : bookOf[c] = NoBook
  /\ bookOf' = [c \in Codes |-> IF c \in new THEN b ELSE bookOf[c]]
  /\ total' = [total EXCEPT ![b] = @ + Cardinality(new)]
  /\ UNCHANGED <<books, open>>

Close(b) ==
  /\ b \in books
  /\ open' = [open EXCEPT ![b] = FALSE]
  /\ \/ UNCHANGED total
     \/ \E n \in 0 .. Cardinality({c \in Codes : bookOf[c] = b}) :
          total' = [total EXCEPT ![b] = n]
  /\ UNCHANGED <<books, bookOf>>

Next ==
  \E b \in Books :
    \/ Create(b)
    \/ \E new \in SUBSET Codes : Register(b, new)
    \/ Close(b)

Spec == Init /\ [][Next]_vars
===============================================================================
