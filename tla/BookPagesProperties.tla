-------------------------- MODULE BookPagesProperties --------------------------
(***************************************************************************)
(* What a client that reads page after page may rely on.                   *)
(***************************************************************************)
EXTENDS BookPages

\* Every variable keeps its type, and no page is longer than its limit.
PagesTypeOK ==
  /\ now \in Nat \ {0}
  /\ createdAt \in [Uploads -> Nat]
  /\ committed \subseteq Uploads
  /\ pc \in {"idle", "findBook", "reading", "answered", "ended", "failed"}
  /\ limit \in Limits
  /\ page \in Nat
  /\ running \subseteq {"count", "find"}
  /\ total \in Nat /\ found \in Nat
  /\ items \subseteq Rows /\ Cardinality(items) <= limit
  /\ begun \subseteq Rows /\ got \subseteq Rows

\* Who was told that there is a next page does not find it empty, although the
\* pages are read one after the other and codes come in between
\* (coupon-books.service.ts:132, 179).
NextPageIsThere ==
  pc = "reading" /\ "find" \notin running /\ page > 1 => items # {}

Alone(row) == \A other \in Rows \ {row} : Time(other) # Time(row)

\* A client that follows hasNextPage to the end is given every row that was
\* there when it began, however many come in meanwhile: they push it down the
\* pages and never past the client.  There are two exceptions.  A row may trade
\* places with another of its created_at between two pages, which the rows of
\* one upload all have (coupon-books.service.ts:159), and the last page may be
\* told from a total that is older than its rows.
NothingIsSkipped ==
  pc = "ended" /\ found <= total =>
    \A row \in begun : Alone(row) => row \in got

Newer(row) == {other \in Rows : Time(other) > Time(row)}

\* The pages that were answered in full.
PagesRead == IF pc \in {"answered", "ended"} THEN page ELSE page - 1

\* What has to be true of a row that was there, and was not given yet.
StillAhead(row) == Alone(row) =>
  /\ PagesRead * limit <= Cardinality(Newer(row))
  /\ pc = "ended" => page * limit < found
  /\ pc = "reading" /\ "find" \notin running /\ row \notin items =>
       page * limit <= Cardinality(Newer(row)) /\ page * limit < found

WalkOnTheWay ==
  /\ pc = "idle" => page = 0 /\ begun = {} /\ got = {}
  /\ pc # "idle" => page >= 1
  /\ pc \in {"idle", "answered", "ended"} => running = {}
  /\ pc = "ended" => total <= page * limit
  /\ pc = "answered" => page * limit < total /\ total <= Cardinality(Rows)
  /\ pc \in {"findBook", "reading"} => Skip < Cardinality(Rows) \/ page = 1
  /\ pc = "reading" /\ "count" \notin running => total <= Cardinality(Rows)

\* The inductive invariant.
PagesInv ==
  /\ PagesTypeOK
  /\ NextPageIsThere
  /\ \A u \in committed : createdAt[u] # 0
  /\ WalkOnTheWay
  /\ \A row \in begun \ got : StillAhead(row)
===============================================================================
