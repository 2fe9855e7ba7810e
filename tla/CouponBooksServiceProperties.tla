--------------------- MODULE CouponBooksServiceProperties ---------------------
(***************************************************************************)
(* What the coupon book service must keep true.                            *)
(***************************************************************************)
EXTENDS CouponBooksService

\* Every variable keeps its type.
BooksTypeOK ==
  /\ exists \subseteq Books
  /\ isActive \in [Books -> BOOLEAN]
  /\ totalCodes \in [Books -> Nat]
  /\ bookOfCode \in [Codes -> Books \cup {NoBook}]
  /\ req \in [Requests -> Calls]
  /\ pc \in [Requests -> PCs]
  /\ resp \in [Requests -> Answers]
  /\ entity \in [Requests -> Nat]
  /\ loaded \in [Requests -> [isActive : BOOLEAN, totalCodes : Nat]]
  /\ work \in [Requests -> Seq(Codes)]
  /\ inserted \in [Requests -> SUBSET Codes]
  /\ told \in [Requests -> [total : Nat, listed : Nat, omitted : Nat]]
  /\ committed \subseteq Requests

\* Two open transactions never insert one code, and none inserts a code that is
\* in the table: the unique index makes the second one wait.
InsertsDisjoint ==
  \A r \in Requests : pc[r] = "insertCodes" =>
    \A c \in inserted[r] : ~InTable(c) /\ Inserting(c) = {r}

\* What a request read of total_codes, and the column itself, never exceed the
\* codes in the table; of an active book the column is exact, however uploads,
\* generations and their failures interleave.
TotalCodesTrusted ==
  \A b \in Books :
    /\ isActive[b] => totalCodes[b] = Cardinality(CodesOf(b))
    /\ totalCodes[b] <= Cardinality(CodesOf(b))
    /\ \A r \in Requests :
         req[r].book = b => entity[r] <= Cardinality(CodesOf(b))

\* Every code in the table was reported as uploaded by exactly one call, of its
\* book: not by two that raced for it, nor by none after one was rolled back.
CodesReportedOnce ==
  \A c \in Codes :
    LET reporters == {r \in committed : c \in inserted[r]}
    IN /\ InTable(c) <=> reporters # {}
       /\ \A r \in reporters :
            reporters = {r} /\ bookOfCode[c] = req[r].book

AnswerHolds(r) ==
  resp[r] = "ok" =>
    IF req[r].op \in {"upload", "generate"}
    THEN told[r].total <= Cardinality(CodesOf(req[r].book))
    ELSE told[r].total <= told[r].listed + told[r].omitted

\* No answer promises codes that are not there, although each is put together
\* from a row of the book read early and a number found out later, while other
\* calls commit in between.  The total of create, get and deactivate exceeds the
\* codes their answer lists by no more than the locked codes it leaves out
\* (coupon-books.service.ts:97-101, 294-322); that of an upload or a generation
\* is never above the codes of the book, though overlapping ones may all tell
\* too little (coupon-books.service.ts:234-241).
ReportedTotalsHold == \A r \in Requests : AnswerHolds(r)

\* What a handler knows on its way: only insertCodes inserts, and commits once;
\* and a book that save() has read as deactivated is not active.
BooksOnTheirWay ==
  \A r \in Requests :
    /\ pc[r] \notin {"insertCodes", "done"} => inserted[r] = {}
    /\ r \in committed => pc[r] \in {"statistics", "done"}
    /\ pc[r] # "done" => resp[r] = "none"
    /\ pc[r] \in {"countCodes", "insertCodes"} => req[r].op \in {"upload", "generate"}
    /\ pc[r] \notin {"findBook", "countCodes", "insertCodes", "done"} =>
         req[r].op \notin {"upload", "generate"}
    /\ pc[r] = "save" /\ ~loaded[r].isActive => ~isActive[req[r].book]

\* The book a call works on was found, and books are never deleted.
BooksFound ==
  \A r \in Requests :
    pc[r] \in {"countCodes", "insertCodes", "reload", "save"} => req[r].book \in exists

\* The inductive invariant: the properties above and what they rest on.
BooksInv ==
  /\ BooksTypeOK
  /\ BooksOnTheirWay
  /\ InsertsDisjoint
  /\ CodesReportedOnce
  /\ TotalCodesTrusted
  /\ ReportedTotalsHold

\* The service implements the registry: a code enters the table once, with its
\* whole upload, in a book that exists and together with their number in
\* total_codes, and is never moved or removed (coupon-books.service.ts:336-368);
\* only deactivation writes a total that is not counted, and none above the
\* codes there are (coupon-books.service.ts:202-204).
Registry ==
  INSTANCE CodeRegistry
    WITH books <- exists, open <- isActive, bookOf <- bookOfCode, total <- totalCodes

ImplementsRegistry == Registry!Spec

\* Every call ends: uploads that wait for each other do not wait for ever.
EveryBookCallEnds ==
  \A r \in Requests : <>(pc[r] = "done")

-------------------------------------------------------------------------------
\* coupon-book.entity.ts: "Total number of codes currently in this book".
TotalCodesIsExact ==
  \A b \in exists : totalCodes[b] = Cardinality(CodesOf(b))

\* No book is deactivated while codes are being inserted into it: what nothing
\* in the code enforces, for deactivateCouponBook takes no lock
\* (coupon-books.service.ts:191-204).
SavesApart ==
  \A r, q \in Requests :
    pc[r] \in {"reload", "save"} /\ pc[q] = "insertCodes"
      => req[r].book # req[q].book

\* While the two keep apart, save() has nothing to write into total_codes.
SaveLeavesTotal ==
  /\ \A b \in Books : totalCodes[b] = Cardinality(CodesOf(b))
  /\ \A r \in Requests :
       /\ pc[r] \in {"reload", "save"} => entity[r] = totalCodes[req[r].book]
       /\ pc[r] = "save" => loaded[r].totalCodes = totalCodes[req[r].book]

\* coupon-book.entity.ts: "Maximum number of codes allowed in this book".  The
\* codes of a book with a pattern are generated only (an upload into it is
\* refused), up to the room that calculateCodesToGenerate left.
MaxCodesKept ==
  \A b \in PatternBooks : Cardinality(CodesOf(b)) <= MaxCodes[b]

\* generateCodes between its count and its commit.
Generated(r) == pc[r] = "insertCodes" /\ req[r].op = "generate"

\* No two generations for one book stand between their count and their commit:
\* the codes are counted outside the transaction that inserts, and without a
\* lock (coupon-books.service.ts:250-273).
GenerationsApart ==
  \A r, q \in Requests :
    r # q /\ Generated(r) /\ Generated(q) => req[r].book # req[q].book

\* While they keep apart, a generation has the room it has counted.
RoomIsLeft ==
  \A r \in Requests :
    /\ pc[r] \in {"countCodes", "insertCodes"} =>
         (req[r].book \in PatternBooks <=> req[r].op = "generate")
    /\ Generated(r) =>
         Cardinality(CodesOf(req[r].book)) + Cardinality(inserted[r]) + Len(work[r])
           <= MaxCodes[req[r].book]
===============================================================================
