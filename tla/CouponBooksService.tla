-------------------------- MODULE CouponBooksService --------------------------
(***************************************************************************)
(* Concurrent calls of CouponBooksService: create, upload, generate,       *)
(* deactivate, and get, which reads a book and then counts its codes.  A   *)
(* step is what a handler does from one await to the next; the rows of an  *)
(* INSERT are steps of their own, because each may wait for another        *)
(* transaction that has inserted the same code.  The slices of 5000 codes  *)
(* an INSERT is cut into make no difference here.                          *)
(***************************************************************************)
EXTENDS Integers, FiniteSets, Sequences

CONSTANTS
  Books,         \* the books that exist or may be created
  TitleOf,       \* name and description of a book
  PatternBooks,  \* the books with a code_pattern
  MaxCodes,      \* coupon_books.max_codes, or NoLimit for NULL
  NoLimit,
  Codes,         \* coupon codes
  NoBook,        \* the book of a code that is in no row
  Requests,      \* handler invocations; each serves one call
  Calls,         \* the calls the administrators may make
  Events         \* what may happen around the handlers, see below

Ops == {"create", "upload", "generate", "deactivate", "get"}

\*  abort  a statement or the connection fails, or the process dies: PostgreSQL
\*         rolls back, and the client gets an error or no answer at all
AllEvents == {"abort"}

\* A created book with a pattern has a limit (validateCodePattern).
ASSUME BooksAssumption ==
  /\ PatternBooks \subseteq Books
  /\ DOMAIN TitleOf = Books
  /\ MaxCodes \in [Books -> (Nat \ {0}) \cup {NoLimit}]
  /\ \A b \in PatternBooks : MaxCodes[b] # NoLimit
  /\ NoLimit \notin Nat
  /\ NoBook \notin Books
  /\ IsFiniteSet(Codes)
  /\ Calls \subseteq [op : Ops, book : Books, codes : Seq(Codes), count : Nat]
  /\ Events \subseteq AllEvents

VARIABLES
  exists,      \* the rows of coupon_books
  isActive,    \* coupon_books.isActive
  totalCodes,  \* coupon_books.total_codes
  bookOfCode,  \* coupons: the book of each code that is in a row
  req,         \* the call a request serves
  pc,          \* where its handler is
  resp,        \* the answer the handler has decided on
  entity,      \* total_codes of the book as it was first read
  loaded,      \* the row of the book as save() has read it again
  work,        \* the codes still to be inserted
  inserted,    \* the codes its open or committed transaction has inserted
  told,        \* the numbers in the answer, and the codes it leaves out
  committed    \* history: the requests whose transaction has committed

tableVars == <<exists, isActive, totalCodes, bookOfCode>>
handlerVars == <<req, pc, resp, entity, loaded, work, inserted, told>>
vars == <<tableVars, handlerVars, committed>>

Answers == {"none", "ok", "rejected", "conflict", "notFound", "serverError"}

PCs == {"findTitle", "insertBook", "findBook", "countCodes", "insertCodes",
        "reload", "save", "statistics", "done"}

CodesOf(b) == {c \in Codes : bookOfCode[c] = b}

NotLoaded == [isActive |-> TRUE, totalCodes |-> 0]
NothingTold == [total |-> 0, listed |-> 0, omitted |-> 0]

\* The database makes up the id of each row: no two calls create the same book.
FreshIds ==
  \A r \in Requests : req[r].op = "create" =>
    /\ req[r].book \notin exists
    /\ \A q \in Requests \ {r} :
         req[q].op = "create" => req[q].book # req[r].book

Init ==
  /\ exists \in SUBSET Books
  /\ \A b1, b2 \in exists : TitleOf[b1] = TitleOf[b2] => b1 = b2
  /\ isActive = [b \in Books |-> TRUE]
  /\ totalCodes = [b \in Books |-> 0]
  /\ bookOfCode = [c \in Codes |-> NoBook]
  /\ req \in [Requests -> Calls]
  /\ FreshIds
  /\ pc = [r \in Requests |-> IF req[r].op = "create" THEN "findTitle"
                                                      ELSE "findBook"]
  /\ resp = [r \in Requests |-> "none"]
  /\ entity = [r \in Requests |-> 0]
  /\ loaded = [r \in Requests |-> NotLoaded]
  /\ work = [r \in Requests |-> <<>>]
  /\ inserted = [r \in Requests |-> {}]
  /\ told = [r \in Requests |-> NothingTold]
  /\ committed = {}

-------------------------------------------------------------------------------
\* Moving a handler.

Goto(r, label) == /\ pc' = [pc EXCEPT ![r] = label]
                  /\ UNCHANGED resp

Reply(r, answer) == /\ pc' = [pc EXCEPT ![r] = "done"]
                    /\ resp' = [resp EXCEPT ![r] = answer]

\* COMMIT may be applied and its acknowledgement lost.
Commit(r) ==
  /\ \/ Reply(r, "ok")
     \/ "abort" \in Events /\ Reply(r, "serverError")
  /\ committed' = committed \cup {r}

\* create and deactivate answer with the statistics of their book.
CommitAndCount(r) ==
  /\ \/ Goto(r, "statistics")
     \/ "abort" \in Events /\ Reply(r, "serverError")
  /\ committed' = committed \cup {r}

\* Slip: a call that has failed is tried again, without a bound.
StartOver(r, answer) ==
  /\ Goto(r, IF req[r].op = "create" THEN "findTitle" ELSE "findBook")
  /\ inserted' = [inserted EXCEPT ![r] = {}]
  /\ UNCHANGED <<tableVars, req, entity, loaded, work, told, committed>>

\* The rows of the open transaction, and its locks, are gone.
Rollback(r, answer) ==
  /\ Reply(r, answer)
  /\ inserted' = [inserted EXCEPT ![r] = {}]
  /\ UNCHANGED <<tableVars, req, entity, loaded, work, told, committed>>

-------------------------------------------------------------------------------
\* createCouponBook

FindTitle(r) ==
  LET b == req[r].book
  IN /\ pc[r] = "findTitle"
     /\ \/ \E x \in exists : TitleOf[x] = TitleOf[b] /\ Reply(r, "conflict")
        \/ /\ \A x \in exists : TitleOf[x] # TitleOf[b]
           \* the dates are in the wrong order, or the pattern is too small
           /\ Reply(r, "rejected") \/ Goto(r, "insertBook")
     /\ UNCHANGED <<tableVars, req, entity, loaded, work, inserted, told, committed>>

InsertBook(r) ==
  /\ pc[r] = "insertBook"
  /\ exists' = exists \cup {req[r].book}
  /\ CommitAndCount(r)
  /\ UNCHANGED <<isActive, totalCodes, bookOfCode, req, entity, loaded, work,
                 inserted, told>>

-------------------------------------------------------------------------------
\* uploadCodes and generateCodes, and the book that deactivate and get find.

\* validateBookForCodeOperation refuses a book of the other kind.
RightKind(r) == req[r].op = "generate" <=> req[r].book \in PatternBooks

FindBook(r) ==
  LET b == req[r].book
  IN /\ pc[r] = "findBook"
     /\ \/ b \notin exists /\ Reply(r, "notFound") /\ UNCHANGED <<entity, work>>
        \/ /\ b \in exists /\ ~isActive[b] /\ req[r].op # "get"
           /\ Reply(r, "conflict") /\ UNCHANGED <<entity, work>>
        \/ /\ b \in exists /\ isActive[b]
           /\ req[r].op \in {"upload", "generate"} /\ ~RightKind(r)
           /\ Reply(r, "rejected") /\ UNCHANGED <<entity, work>>
        \/ /\ b \in exists
           /\ \/ req[r].op = "get"
              \/ isActive[b] /\ (req[r].op = "deactivate" \/ RightKind(r))
           /\ entity' = [entity EXCEPT ![r] = totalCodes[b]]
           /\ work' = [work EXCEPT ![r] = req[r].codes]
           /\ Goto(r, CASE req[r].op = "upload"     -> "insertCodes"
                        [] req[r].op = "generate"   -> "countCodes"
                        [] req[r].op = "deactivate" -> "reload"
                        [] OTHER                    -> "statistics")
     /\ UNCHANGED <<tableVars, req, loaded, inserted, told, committed>>

\* calculateCodesToGenerate
CodesToGenerate(max, current, count) ==
  IF max = NoLimit THEN count
  ELSE IF count <= max - current THEN count ELSE max - current

\* Any codes of the pattern, without repetition; CodeGenerator gives up when
\* its attempts repeat codes too often, which a single code never does.
GeneratedCodes(n) ==
  {s \in [1 .. n -> Codes] : \A i, j \in 1 .. n : s[i] = s[j] => i = j}

\* Counted outside the transaction that will insert.
CountCodes(r) ==
  LET b == req[r].book
      current == Cardinality(CodesOf(b))
      n == CodesToGenerate(MaxCodes[b], current, req[r].count)
  IN /\ pc[r] = "countCodes"
     /\ \/ /\ MaxCodes[b] # NoLimit /\ current >= MaxCodes[b]
           /\ Reply(r, "rejected") /\ UNCHANGED work
        \/ /\ MaxCodes[b] = NoLimit \/ current < MaxCodes[b]
           /\ \/ n > 1 /\ Reply(r, "rejected") /\ UNCHANGED work
              \/ \E s \in GeneratedCodes(n) :
                   /\ work' = [work EXCEPT ![r] = s]
                   /\ Goto(r, "insertCodes")
     /\ UNCHANGED <<tableVars, req, entity, loaded, inserted, told, committed>>

\* The requests whose open transaction has inserted a row with the code.
Inserting(c) ==
  {q \in Requests : pc[q] = "insertCodes" /\ c \in inserted[q]}

InTable(c) == bookOfCode[c] # NoBook

\* Whose end a row of the INSERT waits for.
WaitsFor(r) ==
  IF pc[r] = "insertCodes" /\ work[r] # <<>> /\ ~InTable(Head(work[r]))
  THEN Inserting(Head(work[r])) \ {r}
  ELSE {}

\* Slip: look the code up, then insert it, and no index to wait on.
AddUnlessVisible(r) ==
  LET c == Head(work[r])
  IN /\ pc[r] = "insertCodes" /\ work[r] # <<>>
     /\ inserted' = IF InTable(c) THEN inserted
                    ELSE [inserted EXCEPT ![r] = @ \cup {c}]
     /\ work' = [work EXCEPT ![r] = Tail(@)]
     /\ UNCHANGED <<tableVars, req, pc, resp, entity, loaded, told, committed>>

\* Slip: ON CONFLICT (code) DO UPDATE.
TakeOverCode(r) ==
  LET c == Head(work[r])
  IN /\ pc[r] = "insertCodes" /\ work[r] # <<>>
     /\ WaitsFor(r) = {}
     /\ inserted' = [inserted EXCEPT ![r] = @ \cup {c}]
     /\ work' = [work EXCEPT ![r] = Tail(@)]
     /\ UNCHANGED <<tableVars, req, pc, resp, entity, loaded, told, committed>>

\* One row of INSERT ... ON CONFLICT (code) DO NOTHING.  A code somebody is
\* inserting is waited for; a code in the table, or inserted before by the same
\* call, is skipped.
InsertCode(r) ==
  LET c == Head(work[r])
  IN /\ pc[r] = "insertCodes" /\ work[r] # <<>>
     /\ WaitsFor(r) = {}
     /\ inserted' = IF InTable(c) THEN inserted
                    ELSE [inserted EXCEPT ![r] = @ \cup {c}]
     /\ work' = [work EXCEPT ![r] = Tail(@)]
     /\ UNCHANGED <<tableVars, req, pc, resp, entity, loaded, told, committed>>

\* Slip: the new total is computed from the entity read at the start.
StoreReadTotal(r) ==
  totalCodes' = [totalCodes EXCEPT ![req[r].book] =
                   entity[r] + Cardinality(inserted[r])]

\* total_codes + uploadedCount, evaluated by the UPDATE under its row lock.
AddToTotal(r) ==
  totalCodes' = [totalCodes EXCEPT ![req[r].book] =
                   @ + Cardinality(inserted[r])]

\* Slip: codes.length for uploadedCount.
TotalOfOffered(r) == entity[r] + Len(req[r].codes)

\* The total in the answer: the book as it was first read, and uploadedCount.
AnsweredTotal(r) == entity[r] + Cardinality(inserted[r])

CommitCodes(r) ==
  /\ pc[r] = "insertCodes" /\ work[r] = <<>>
  /\ AddToTotal(r)
  /\ told' = [told EXCEPT ![r] = [NothingTold EXCEPT !.total = AnsweredTotal(r)]]
  /\ bookOfCode' = [c \in Codes |-> IF c \in inserted[r] THEN req[r].book
                                                         ELSE bookOfCode[c]]
  /\ Commit(r)
  /\ UNCHANGED <<exists, isActive, req, entity, loaded, work, inserted>>

-------------------------------------------------------------------------------
\* deactivateCouponBook.  TypeORM's save() reads the row again and writes the
\* columns in which the entity differs from it.

Reload(r) ==
  LET b == req[r].book
  IN /\ pc[r] = "reload"
     /\ loaded' = [loaded EXCEPT ![r] = [isActive |-> isActive[b],
                                         totalCodes |-> totalCodes[b]]]
     /\ Goto(r, "save")
     /\ UNCHANGED <<tableVars, req, entity, work, inserted, told, committed>>

Save(r) ==
  LET b == req[r].book
  IN /\ pc[r] = "save"
     /\ isActive' = IF loaded[r].isActive THEN [isActive EXCEPT ![b] = FALSE]
                                          ELSE isActive
     /\ totalCodes' = IF loaded[r].totalCodes = entity[r] THEN totalCodes
                      ELSE [totalCodes EXCEPT ![b] = entity[r]]
     /\ CommitAndCount(r)
     /\ UNCHANGED <<exists, bookOfCode, req, entity, loaded, work, inserted, told>>

\* buildBookResponse: total_codes of the entity, and the codes of the table as
\* GROUP BY status counts them now.  The answer lists available, assigned and
\* redeemed codes; how many of them are locked, and left out, is up to
\* CouponsService.
BuildBookResponse(r) ==
  LET there == Cardinality(CodesOf(req[r].book))
  IN /\ pc[r] = "statistics"
     /\ \E locked \in 0 .. there :
          told' = [told EXCEPT ![r] = [total |-> entity[r], listed |-> there - locked,
                                       omitted |-> locked]]
     /\ Reply(r, "ok")
     /\ UNCHANGED <<tableVars, req, entity, loaded, work, inserted, committed>>

-------------------------------------------------------------------------------
\* Failures.

\* The open transaction, if there is one, is rolled back.
DatabaseFailure(r) ==
  /\ "abort" \in Events
  /\ pc[r] # "done"
  /\ Rollback(r, "serverError")

\* Everyone in S waits for someone in S: PostgreSQL aborts one of them.
DeadlockVictim(r) ==
  /\ \E S \in SUBSET Requests :
       /\ r \in S
       /\ \A q \in S : WaitsFor(q) # {}
       /\ UNION {WaitsFor(q) : q \in S} = S
  /\ Rollback(r, "serverError")

-------------------------------------------------------------------------------
Handler(r) ==
  \/ FindTitle(r) \/ InsertBook(r)
  \/ FindBook(r) \/ CountCodes(r) \/ InsertCode(r) \/ CommitCodes(r)
  \/ Reload(r) \/ Save(r) \/ BuildBookResponse(r)
  \/ DeadlockVictim(r)

Next == \E r \in Requests : Handler(r) \/ DatabaseFailure(r)

Spec == Init /\ [][Next]_vars

\* The event loop resumes every handler whose await has ended; the deadlock
\* detector runs whenever a statement has waited for deadlock_timeout.
FairSpec == Spec /\ \A r \in Requests : WF_vars(Handler(r))
===============================================================================
