------------------------------- MODULE BookPages -------------------------------
(***************************************************************************)
(* getAllCouponBooks and getCouponsByBookId of CouponBooksService: a       *)
(* client reads page after page, newest first, while uploads commit.  The  *)
(* rows of a page and their total are two statements that run at once, and *)
(* all rows of one transaction have the created_at of its BEGIN.           *)
(***************************************************************************)
EXTENDS Integers, FiniteSets

CONSTANTS
  Uploads,   \* transactions that add codes, or a book
  RowsOf,    \* the rows each of them adds
  Limits,    \* the limits a client may ask for; 1 .. 100 in the code
  LastTime   \* bound: how far the clock goes

AllRows == UNION {RowsOf[u] : u \in Uploads}

ASSUME PagesAssumption ==
  /\ IsFiniteSet(AllRows)
  /\ \A u, v \in Uploads : u # v => RowsOf[u] \cap RowsOf[v] = {}
  /\ Limits \subseteq Nat \ {0}
  /\ LastTime \in Nat

VARIABLES
  now,        \* PostgreSQL's now()
  createdAt,  \* of the rows of an upload; 0 before its BEGIN
  committed,  \* the uploads that have committed
  pc,         \* where the client and its request are
  limit,      \* the client's limit, the same for every page
  page,       \* the page it asks for
  running,    \* the statements of Promise.all without a result
  total, items, found,  \* their results, and the rows there were for items
  begun,      \* history: the rows that were there when the client began
  got         \* the rows the client has been given

tableVars == <<now, createdAt, committed>>
walkVars == <<pc, limit, page, running, total, items, found, begun, got>>
pagesVars == <<tableVars, walkVars>>

Rows == UNION {RowsOf[u] : u \in committed}

UploadOf(row) == CHOOSE u \in Uploads : row \in RowsOf[u]
Time(row) == createdAt[UploadOf(row)]

PagesInit ==
  /\ now = 1
  /\ createdAt = [u \in Uploads |-> 0]
  /\ committed = {}
  /\ pc = "idle" /\ limit \in Limits /\ page = 0
  /\ running = {} /\ total = 0 /\ items = {} /\ found = 0
  /\ begun = {} /\ got = {}

-------------------------------------------------------------------------------
\* The first rows of ORDER BY created_at DESC: in which order it puts rows of
\* one time is up to PostgreSQL, each time again.

\* Slip: ORDER BY forgotten.
AnyOf(some, rows) == some \subseteq rows

FirstOf(some, rows) ==
  /\ some \subseteq rows
  /\ \A s \in some, r \in rows \ some : Time(s) >= Time(r)

\* Slip: the page number counted from 0.
SkipFromZero == page * limit

Skip == (page - 1) * limit

Least(m, n) == IF m <= n THEN m ELSE n

\* Slip: one row more than asked for, to see whether there is a next page.
TakeOneMore(rows) == Least(limit + 1, Cardinality(rows))

Take(rows) == Least(limit, Cardinality(rows))

\* Slip: Math.floor.
FloorOfPages == total \div limit

\* Math.ceil(total / limit)
TotalPages == (total + limit - 1) \div limit

-------------------------------------------------------------------------------
\* The client.  It begins with page 1 and goes on while hasNextPage.

Begin ==
  /\ pc = "idle"
  /\ begun' = Rows
  /\ page' = 1
  /\ pc' = "findBook"
  /\ UNCHANGED <<tableVars, limit, running, total, items, found, got>>

AskNext ==
  /\ pc = "answered"
  /\ page' = page + 1
  /\ pc' = "findBook"
  /\ UNCHANGED <<tableVars, limit, running, total, items, found, begun, got>>

\* findBookOrFail, which getAllCouponBooks does without; then Promise.all.
FindBook ==
  /\ pc = "findBook"
  /\ pc' = "reading"
  /\ running' = {"count", "find"}
  /\ UNCHANGED <<tableVars, limit, page, total, items, found, begun, got>>

CountRows ==
  /\ pc = "reading" /\ "count" \in running
  /\ total' = Cardinality(Rows)
  /\ running' = running \ {"count"}
  /\ UNCHANGED <<tableVars, pc, limit, page, items, found, begun, got>>

FindRows ==
  /\ pc = "reading" /\ "find" \in running
  /\ \E skipped \in SUBSET Rows : \E some \in SUBSET (Rows \ skipped) :
       /\ Cardinality(skipped) = Least(Skip, Cardinality(Rows))
       /\ Cardinality(some) = Take(Rows \ skipped)
       /\ FirstOf(skipped, Rows)
       /\ FirstOf(some, Rows \ skipped)
       /\ items' = some
  /\ found' = Cardinality(Rows)
  /\ running' = running \ {"find"}
  /\ UNCHANGED <<tableVars, pc, limit, page, total, begun, got>>

\* Slip: the next page is announced for the last one too.
AnnouncesOneMore == page <= TotalPages

HasNextPage == page < TotalPages

Respond ==
  /\ pc = "reading" /\ running = {}
  /\ got' = got \cup items
  /\ pc' = IF HasNextPage THEN "answered" ELSE "ended"
  /\ UNCHANGED <<tableVars, limit, page, running, total, items, found, begun>>

\* One of the statements fails, or there is no such book.
Fail ==
  /\ pc \in {"findBook", "reading"}
  /\ pc' = "failed"
  /\ running' = {}
  /\ UNCHANGED <<tableVars, limit, page, total, items, found, begun, got>>

-------------------------------------------------------------------------------
\* Uploads, of which CouponBooksService has the whole story.

Tick == now < LastTime /\ now' = now + 1 /\ UNCHANGED <<createdAt, committed, walkVars>>

BeginUpload(u) ==
  /\ createdAt[u] = 0
  /\ createdAt' = [createdAt EXCEPT ![u] = now]
  /\ UNCHANGED <<now, committed, walkVars>>

CommitUpload(u) ==
  /\ createdAt[u] # 0 /\ u \notin committed
  /\ committed' = committed \cup {u}
  /\ UNCHANGED <<now, createdAt, walkVars>>

PagesNext ==
  \/ Begin \/ AskNext \/ FindBook \/ CountRows \/ FindRows \/ Respond \/ Fail
  \/ Tick
  \/ \E u \in Uploads : BeginUpload(u) \/ CommitUpload(u)

PagesSpec == PagesInit /\ [][PagesNext]_pagesVars
===============================================================================
