----------------------- MODULE CouponBooksServiceProofs -----------------------
(***************************************************************************)
(* Proofs about CouponBooksService for every set of books, codes, requests *)
(* and calls.                                                              *)
(***************************************************************************)
EXTENDS CouponBooksServiceProperties, FiniteSetTheorems, TLAPS

-------------------------------------------------------------------------------
\* Type correctness.

\* Generation asks for at least no code at all: the count and the limit are
\* numbers and the limit has not been reached.
LEMMA ToGenerateType ==
  ASSUME NEW max \in (Nat \ {0}) \cup {NoLimit}, NEW current \in Nat,
         NEW count \in Nat, max = NoLimit \/ current < max
  PROVE  CodesToGenerate(max, current, count) \in Nat
BY BooksAssumption DEF CodesToGenerate

LEMMA CallTypes ==
  ASSUME BooksTypeOK, NEW r \in Requests
  PROVE  /\ req[r].book \in Books /\ req[r].codes \in Seq(Codes) /\ req[r].count \in Nat
         /\ req[r].op \in Ops
<1>1. req[r] \in [op : Ops, book : Books, codes : Seq(Codes), count : Nat]
  <2>1. req \in [Requests -> Calls]
    BY DEF BooksTypeOK
  <2> QED BY <2>1, BooksAssumption
<1> QED BY <1>1

LEMMA CodesOfFinite ==
  ASSUME NEW b
  PROVE  IsFiniteSet(CodesOf(b)) /\ Cardinality(CodesOf(b)) \in Nat
BY BooksAssumption, FS_Subset, FS_CardinalityType DEF CodesOf

LEMMA InsertedFinite ==
  ASSUME BooksTypeOK, NEW r \in Requests
  PROVE  IsFiniteSet(inserted[r]) /\ Cardinality(inserted[r]) \in Nat
<1>1. inserted[r] \in SUBSET Codes
  BY DEF BooksTypeOK
<1> QED BY <1>1, BooksAssumption, FS_Subset, FS_CardinalityType

LEMMA BooksInitType == Init => BooksTypeOK
<1> SUFFICES ASSUME Init PROVE BooksTypeOK OBVIOUS
<1>1. loaded \in [Requests -> [isActive : BOOLEAN, totalCodes : Nat]]
  BY DEF Init, NotLoaded
<1>3. told \in [Requests -> [total : Nat, listed : Nat, omitted : Nat]]
  BY DEF Init, NothingTold
<1>2. work \in [Requests -> Seq(Codes)]
  BY DEF Init
<1> QED BY <1>1, <1>2, <1>3 DEF Init, BooksTypeOK, PCs, Answers

LEMMA ReplyType ==
  ASSUME BooksTypeOK, NEW r \in Requests, NEW a \in Answers, Reply(r, a)
  PROVE  pc' \in [Requests -> PCs] /\ resp' \in [Requests -> Answers]
BY DEF BooksTypeOK, Reply, PCs

LEMMA CommitType ==
  ASSUME BooksTypeOK, NEW r \in Requests, Commit(r)
  PROVE  /\ pc' \in [Requests -> PCs] /\ resp' \in [Requests -> Answers]
         /\ committed' \subseteq Requests
BY DEF BooksTypeOK, Commit, Reply, PCs, Answers

LEMMA CommitAndCountType ==
  ASSUME BooksTypeOK, NEW r \in Requests, CommitAndCount(r)
  PROVE  /\ pc' \in [Requests -> PCs] /\ resp' \in [Requests -> Answers]
         /\ committed' \subseteq Requests
BY DEF BooksTypeOK, CommitAndCount, Goto, Reply, PCs, Answers

LEMMA RollbackType ==
  ASSUME BooksTypeOK, NEW r \in Requests, NEW a \in Answers, Rollback(r, a)
  PROVE  BooksTypeOK'
<1>1. pc' \in [Requests -> PCs] /\ resp' \in [Requests -> Answers]
  BY ReplyType DEF Rollback
<1> QED BY <1>1 DEF Rollback, BooksTypeOK, tableVars

LEMMA BooksNextType == BooksTypeOK /\ [Next]_vars => BooksTypeOK'
<1> SUFFICES ASSUME BooksTypeOK, [Next]_vars PROVE BooksTypeOK' OBVIOUS
<1>1. CASE UNCHANGED vars
  BY <1>1 DEF BooksTypeOK, vars, tableVars, handlerVars
<1>2. ASSUME NEW r \in Requests, Handler(r) \/ DatabaseFailure(r)
      PROVE  BooksTypeOK'
  <2> DEFINE b == req[r].book
  <2>0. /\ b \in Books /\ req[r].codes \in Seq(Codes) /\ req[r].count \in Nat
        /\ req[r].op \in Ops
    BY CallTypes DEF BooksTypeOK
  <2>1. CASE FindTitle(r)
    BY <2>1 DEF FindTitle, Reply, Goto, BooksTypeOK, PCs, Answers, tableVars
  <2>2. CASE InsertBook(r)
    BY <2>0, <2>2, CommitAndCountType DEF InsertBook, BooksTypeOK
  <2>3. CASE FindBook(r)
    <3>1. pc' \in [Requests -> PCs] /\ resp' \in [Requests -> Answers]
      BY <2>0, <2>3 DEF FindBook, Reply, Goto, BooksTypeOK, PCs, Answers, Ops
    <3>2. entity' \in [Requests -> Nat] /\ work' \in [Requests -> Seq(Codes)]
      <4>1. \/ UNCHANGED <<entity, work>>
            \/ /\ entity' = [entity EXCEPT ![r] = totalCodes[b]]
               /\ work' = [work EXCEPT ![r] = req[r].codes]
        BY <2>3 DEF FindBook
      <4> QED BY <2>0, <4>1 DEF BooksTypeOK
    <3> QED BY <2>3, <3>1, <3>2 DEF FindBook, BooksTypeOK, tableVars
  <2>4. CASE CountCodes(r)
    <3> DEFINE n == CodesToGenerate(MaxCodes[b], Cardinality(CodesOf(b)),
                                    req[r].count)
    <3>1. pc' \in [Requests -> PCs] /\ resp' \in [Requests -> Answers]
      BY <2>4 DEF CountCodes, Reply, Goto, BooksTypeOK, PCs, Answers
    <3>2. n \in Nat \/ UNCHANGED work
      BY <2>0, <2>4, BooksAssumption, CodesOfFinite, ToGenerateType
         DEF CountCodes
    <3>3. n \in Nat => GeneratedCodes(n) \subseteq Seq(Codes)
      BY DEF GeneratedCodes
    <3>4. work' \in [Requests -> Seq(Codes)]
      <4> HIDE DEF n
      <4>1. UNCHANGED work
              \/ \E s \in GeneratedCodes(n) : work' = [work EXCEPT ![r] = s]
        BY <2>4 DEF CountCodes, n
      <4> QED BY <3>2, <3>3, <4>1 DEF BooksTypeOK
    <3> QED BY <2>4, <3>1, <3>4 DEF CountCodes, BooksTypeOK, tableVars
  <2>5. CASE InsertCode(r)
    <3>1. Head(work[r]) \in Codes /\ Tail(work[r]) \in Seq(Codes)
      BY <2>5 DEF InsertCode, BooksTypeOK
    <3> QED BY <2>5, <3>1 DEF InsertCode, BooksTypeOK, tableVars
  <2>6. CASE CommitCodes(r)
    <3>1. totalCodes' \in [Books -> Nat]
      <4>1. Cardinality(inserted[r]) \in Nat
        BY InsertedFinite
      <4>2. AddToTotal(r) /\ totalCodes \in [Books -> Nat]
        BY <2>6 DEF CommitCodes, BooksTypeOK
      <4>3. \A m, n \in Nat : m + n \in Nat
        OBVIOUS
      <4> QED BY <2>0, <4>1, <4>2, <4>3 DEF AddToTotal
    <3>2. bookOfCode' \in [Codes -> Books \cup {NoBook}]
      BY <2>0, <2>6 DEF CommitCodes, BooksTypeOK
    <3>3. told' \in [Requests -> [total : Nat, listed : Nat, omitted : Nat]]
      <4>1. AnsweredTotal(r) \in Nat
        BY InsertedFinite DEF AnsweredTotal, BooksTypeOK
      <4>2. [NothingTold EXCEPT !.total = AnsweredTotal(r)]
              \in [total : Nat, listed : Nat, omitted : Nat]
        BY <4>1 DEF NothingTold
      <4> QED BY <2>6, <4>2 DEF CommitCodes, BooksTypeOK
    <3> QED BY <2>6, <3>1, <3>2, <3>3, CommitType DEF CommitCodes, BooksTypeOK
  <2>7. CASE Reload(r)
    BY <2>0, <2>7 DEF Reload, Goto, BooksTypeOK, PCs, tableVars
  <2>8. CASE Save(r)
    BY <2>0, <2>8, CommitAndCountType DEF Save, BooksTypeOK
  <2>9. CASE DeadlockVictim(r) \/ DatabaseFailure(r)
    BY <2>9, RollbackType DEF DeadlockVictim, DatabaseFailure, Answers
  <2>10. CASE BuildBookResponse(r)
    <3>1. told' \in [Requests -> [total : Nat, listed : Nat, omitted : Nat]]
      BY <2>10, CodesOfFinite DEF BuildBookResponse, BooksTypeOK
    <3> QED BY <2>10, <3>1, ReplyType DEF BuildBookResponse, BooksTypeOK, Answers, tableVars
  <2> QED BY <1>2, <2>1, <2>2, <2>3, <2>4, <2>5, <2>6, <2>7, <2>8, <2>9, <2>10
          DEF Handler
<1> QED BY <1>1, <1>2 DEF Next

\* Every reachable state of the book service is well typed: in particular no
\* total_codes, read or stored, is ever negative.
THEOREM BooksTypeCorrect == Spec => []BooksTypeOK
<1>1. Init => BooksTypeOK
  BY BooksInitType
<1>2. BooksTypeOK /\ [Next]_vars => BooksTypeOK'
  BY BooksNextType
<1> QED BY <1>1, <1>2, PTL DEF Spec

-------------------------------------------------------------------------------
\* The inductive invariant.  A step is of one of four shapes: it leaves the
\* table of codes, its totals and the insertions alone; it inserts a code into
\* an open transaction; it commits codes; or it saves a deactivated book.

\* The table of codes is as it was, and nobody's insertions grew.
Quiet(r) ==
  /\ UNCHANGED <<bookOfCode, totalCodes, isActive, req>>
  /\ inserted' \in {inserted, [inserted EXCEPT ![r] = {}]}
  /\ committed' \in {committed, committed \cup {r}}
  /\ \A q \in Requests \ {r} : /\ pc'[q] = pc[q] /\ loaded'[q] = loaded[q]
                               /\ entity'[q] = entity[q] /\ resp'[q] = resp[q]
                               /\ told'[q] = told[q]

\* A quiet step of a handler that has not inserted anything it keeps.
LEMMA QuietStep ==
  ASSUME BooksInv, NEW r \in Requests, Handler(r) \/ DatabaseFailure(r),
         ~InsertCode(r), ~CommitCodes(r), ~Save(r)
  PROVE  /\ Quiet(r) /\ pc[r] # "done"
         /\ inserted'[r] = {}
         /\ r \in committed => inserted[r] = {}
         /\ entity'[r] \in {entity[r], totalCodes[req[r].book]}
         /\ r \in committed' => pc'[r] \in {"statistics", "done"}
         /\ pc'[r] # "done" => resp'[r] = "none"
         /\ pc'[r] \in {"countCodes", "insertCodes"}
              => req[r].op \in {"upload", "generate"}
         /\ pc'[r] \notin {"findBook", "countCodes", "insertCodes", "done"}
              => req[r].op \notin {"upload", "generate"}
         /\ pc'[r] = "save" => loaded'[r].isActive = isActive[req[r].book]
         /\ AnswerHolds(r)'
<1> USE DEF BooksInv, BooksTypeOK
<1>0. /\ pc[r] # "done" => resp[r] = "none"
      /\ pc[r] \notin {"insertCodes", "done"} => inserted[r] = {}
      /\ r \in committed => pc[r] \in {"statistics", "done"}
      /\ pc[r] \in {"countCodes", "insertCodes"} => req[r].op \in {"upload", "generate"}
      /\ pc[r] \notin {"findBook", "countCodes", "insertCodes", "done"}
           => req[r].op \notin {"upload", "generate"}
  BY DEF BooksOnTheirWay
<1>1. CASE FindTitle(r)
  BY <1>0, <1>1 DEF FindTitle, Reply, Goto, Quiet, tableVars, AnswerHolds
<1>2. CASE InsertBook(r)
  BY <1>0, <1>2 DEF InsertBook, CommitAndCount, Reply, Goto, Quiet, AnswerHolds
<1>3. CASE FindBook(r)
  <2>1. /\ pc[r] = "findBook"
        /\ UNCHANGED <<tableVars, req, loaded, inserted, told, committed>>
        /\ \A q \in Requests \ {r} : /\ pc'[q] = pc[q] /\ resp'[q] = resp[q]
                                     /\ entity'[q] = entity[q]
    BY <1>3 DEF FindBook, Reply, Goto
  <2>2. entity'[r] \in {entity[r], totalCodes[req[r].book]}
    BY <1>3 DEF FindBook
  <2>3. \/ pc'[r] = "done" /\ resp'[r] # "ok"
        \/ resp'[r] = resp[r] /\ pc'[r] \in {"insertCodes", "countCodes"}
             /\ req[r].op \in {"upload", "generate"}
        \/ resp'[r] = resp[r] /\ pc'[r] \in {"reload", "statistics"}
             /\ req[r].op \notin {"upload", "generate"}
    BY <1>3 DEF FindBook, Reply, Goto
  <2> QED BY <1>0, <2>1, <2>2, <2>3 DEF Quiet, tableVars, AnswerHolds
<1>4. CASE CountCodes(r)
  <2>1. /\ pc[r] = "countCodes"
        /\ \/ pc'[r] = "done" /\ resp'[r] = "rejected"
           \/ pc'[r] = "insertCodes" /\ resp'[r] = resp[r]
        /\ \A q \in Requests \ {r} : pc'[q] = pc[q] /\ resp'[q] = resp[q]
    BY <1>4 DEF CountCodes, Reply, Goto
  <2>2. UNCHANGED <<tableVars, req, entity, loaded, inserted, told, committed>>
    BY <1>4 DEF CountCodes
  <2> QED BY <1>0, <2>1, <2>2 DEF Quiet, tableVars, AnswerHolds
<1>5. CASE Reload(r)
  BY <1>0, <1>5 DEF Reload, Goto, Quiet, tableVars, AnswerHolds
<1>6. CASE DeadlockVictim(r) \/ DatabaseFailure(r)
  <2>1. pc[r] # "done"
    BY <1>6 DEF DeadlockVictim, DatabaseFailure, WaitsFor
  <2>2. Rollback(r, "serverError")
    BY <1>6 DEF DeadlockVictim, DatabaseFailure
  <2> QED BY <1>0, <2>1, <2>2 DEF Rollback, Reply, Quiet, tableVars, AnswerHolds
<1>7. CASE BuildBookResponse(r)
  <2> DEFINE there == Cardinality(CodesOf(req[r].book))
  <2>1. entity[r] <= there /\ there \in Nat
    BY BooksAssumption, CodesOfFinite DEF TotalCodesTrusted
  <2>2. /\ pc[r] = "statistics" /\ pc'[r] = "done"
        /\ \E locked \in 0 .. there : told'[r] = [total |-> entity[r], listed |-> there - locked,
                                                 omitted |-> locked]
        /\ \A q \in Requests \ {r} : /\ pc'[q] = pc[q] /\ resp'[q] = resp[q]
                                     /\ told'[q] = told[q]
        /\ UNCHANGED <<tableVars, req, entity, loaded, work, inserted, committed>>
    BY <1>7 DEF BuildBookResponse, Reply
  <2>3. told'[r].total <= told'[r].listed + told'[r].omitted
    <3> HIDE DEF there
    <3> QED BY <2>1, <2>2
  <2>4. req[r].op \notin {"upload", "generate"}
    BY <2>2 DEF BooksOnTheirWay
  <2> QED BY <1>0, <2>2, <2>3, <2>4 DEF Quiet, tableVars, AnswerHolds
<1> QED BY <1>1, <1>2, <1>3, <1>4, <1>5, <1>6, <1>7 DEF Handler

LEMMA QuietKeeps ==
  ASSUME BooksInv, BooksTypeOK', NEW r \in Requests, Quiet(r), pc[r] # "done",
         inserted'[r] = {},
         r \in committed => inserted[r] = {},
         entity'[r] \in {entity[r], totalCodes[req[r].book]},
         r \in committed' => pc'[r] \in {"statistics", "done"},
         pc'[r] # "done" => resp'[r] = "none",
         pc'[r] \in {"countCodes", "insertCodes"}
           => req[r].op \in {"upload", "generate"},
         pc'[r] \notin {"findBook", "countCodes", "insertCodes", "done"}
           => req[r].op \notin {"upload", "generate"},
         pc'[r] = "save" => loaded'[r].isActive = isActive[req[r].book],
         AnswerHolds(r)'
  PROVE  BooksInv'
<1> USE DEF BooksInv, Quiet
<1>2. \A c : (InTable(c) <=> InTable(c)')
  BY DEF InTable
<1>3. \A q \in Requests \ {r} : inserted'[q] = inserted[q]
  BY DEF BooksTypeOK
<1>4. BooksOnTheirWay'
  <2> SUFFICES ASSUME NEW q \in Requests
               PROVE  /\ pc'[q] \notin {"insertCodes", "done"} => inserted'[q] = {}
                      /\ q \in committed' => pc'[q] \in {"statistics", "done"}
                      /\ pc'[q] # "done" => resp'[q] = "none"
                      /\ pc'[q] \in {"countCodes", "insertCodes"}
                           => req'[q].op \in {"upload", "generate"}
                      /\ pc'[q] \notin {"findBook", "countCodes", "insertCodes", "done"}
                           => req'[q].op \notin {"upload", "generate"}
                      /\ pc'[q] = "save" /\ ~loaded'[q].isActive
                           => ~isActive'[req'[q].book]
    BY DEF BooksOnTheirWay
  <2>1. CASE q = r
    BY <2>1
  <2>2. CASE q # r
    BY <2>2, <1>3 DEF BooksOnTheirWay
  <2> QED BY <2>1, <2>2
<1>5. InsertsDisjoint'
  BY <1>2, <1>3 DEF InsertsDisjoint, Inserting
<1>6. CodesReportedOnce'
  <2>1. \A c \in Codes : {q \in committed' : c \in inserted'[q]}
                           = {q \in committed : c \in inserted[q]}
    <3> SUFFICES ASSUME NEW c \in Codes, NEW q
                 PROVE  q \in committed' /\ c \in inserted'[q]
                          <=> q \in committed /\ c \in inserted[q]
      OBVIOUS
    <3>1. CASE q = r
      BY <3>1
    <3>2. CASE q # r
      BY <1>3, <3>2 DEF BooksTypeOK
    <3> QED BY <3>1, <3>2
  <2> QED BY <1>2, <2>1 DEF CodesReportedOnce
<1>7. TotalCodesTrusted'
  <2>1. \A b \in Books : CodesOf(b)' = CodesOf(b)
    BY DEF CodesOf
  <2>2. req[r].book \in Books
    BY CallTypes DEF BooksTypeOK
  <2> SUFFICES ASSUME NEW b \in Books, NEW q \in Requests, req[q].book = b
               PROVE  entity'[q] <= Cardinality(CodesOf(b))
    BY <2>1 DEF TotalCodesTrusted
  <2> QED BY <2>2 DEF TotalCodesTrusted
<1>8. ReportedTotalsHold'
  <2> SUFFICES ASSUME NEW q \in Requests \ {r} PROVE AnswerHolds(q)'
    BY DEF ReportedTotalsHold
  <2> QED BY DEF ReportedTotalsHold, AnswerHolds, CodesOf
<1> QED BY <1>4, <1>5, <1>6, <1>7, <1>8

\* A code becomes part of an open transaction: it is in no row, and nobody else
\* is inserting it, because the step did not have to wait.
LEMMA InsertKeeps ==
  ASSUME BooksInv, BooksTypeOK', NEW r \in Requests, InsertCode(r)
  PROVE  BooksInv'
<1> DEFINE c == Head(work[r])
<1> USE DEF BooksInv
<1>1. /\ pc[r] = "insertCodes" /\ work[r] # <<>> /\ WaitsFor(r) = {}
      /\ UNCHANGED <<tableVars, req, pc, resp, entity, loaded, told, committed>>
      /\ r \notin committed
  BY DEF InsertCode, BooksOnTheirWay
<1>2. /\ \A q \in Requests \ {r} : inserted'[q] = inserted[q]
      /\ inserted'[r] \in {inserted[r], inserted[r] \cup {c}}
      /\ InTable(c) => inserted'[r] = inserted[r]
  BY DEF InsertCode, BooksTypeOK
<1>3. ~InTable(c) => Inserting(c) \subseteq {r}
  BY <1>1 DEF WaitsFor
<1>4. BooksOnTheirWay'
  BY <1>1, <1>2 DEF BooksOnTheirWay, tableVars
<1>5. InsertsDisjoint'
  <2> SUFFICES ASSUME NEW q \in Requests, pc[q] = "insertCodes",
                      NEW d \in inserted'[q]
               PROVE  ~InTable(d) /\ Inserting(d)' = {q}
    BY <1>1 DEF InsertsDisjoint, InTable, tableVars
  <2>1. CASE d = c
    <3>1. ~InTable(c)
      BY <1>2, <2>1 DEF InsertsDisjoint
    <3>2. q = r
      BY <1>2, <1>3, <2>1, <3>1 DEF Inserting
    <3>3. \A p \in Requests : pc[p] = "insertCodes" /\ d \in inserted'[p] => p = r
      BY <1>2, <1>3, <2>1, <3>1 DEF Inserting
    <3>4. Inserting(d)' = {p \in Requests : /\ pc[p] = "insertCodes"
                                            /\ d \in inserted'[p]}
      BY <1>1 DEF Inserting
    <3> QED BY <2>1, <3>1, <3>2, <3>3, <3>4
  <2>2. CASE d # c
    <3>1. \A p \in Requests : d \in inserted'[p] <=> d \in inserted[p]
      BY <1>2, <2>2
    <3> QED BY <1>1, <3>1 DEF InsertsDisjoint, Inserting
  <2> QED BY <2>1, <2>2
<1>6. CodesReportedOnce'
  <2>1. \A d \in Codes : {q \in committed' : d \in inserted'[q]}
                           = {q \in committed : d \in inserted[q]}
    <3> SUFFICES ASSUME NEW d \in Codes, NEW q \in committed
                 PROVE  d \in inserted'[q] <=> d \in inserted[q]
      BY <1>1
    <3> QED BY <1>1, <1>2 DEF BooksTypeOK
  <2> QED BY <1>1, <2>1 DEF CodesReportedOnce, InTable, tableVars
<1>7. TotalCodesTrusted'
  BY <1>1 DEF TotalCodesTrusted, CodesOf, tableVars
<1>8. ReportedTotalsHold'
  BY <1>1 DEF ReportedTotalsHold, AnswerHolds, CodesOf, tableVars
<1> QED BY <1>4, <1>5, <1>6, <1>7, <1>8

\* A commit adds to the codes of its book what the transaction has inserted, and
\* nothing to those of another.
LEMMA CommitCounts ==
  ASSUME BooksInv, NEW r \in Requests, CommitCodes(r)
  PROVE  /\ \A x \in Books \ {req[r].book} : CodesOf(x)' = CodesOf(x)
         /\ Cardinality(CodesOf(req[r].book)')
              = Cardinality(CodesOf(req[r].book)) + Cardinality(inserted[r])
<1> DEFINE new == inserted[r]
           b == req[r].book
<1> USE DEF BooksInv
<1>1. /\ pc[r] = "insertCodes" /\ req' = req
      /\ bookOfCode' = [c \in Codes |-> IF c \in new THEN b ELSE bookOfCode[c]]
      /\ b \in Books /\ new \subseteq Codes
  BY BooksAssumption DEF CommitCodes, BooksTypeOK
<1>2. \A c \in new : bookOfCode[c] = NoBook
  BY <1>1 DEF InsertsDisjoint, InTable
<1>3. \A x \in Books \ {b} : CodesOf(x)' = CodesOf(x)
  <2> SUFFICES ASSUME NEW x \in Books \ {b}, NEW c \in Codes
               PROVE  bookOfCode'[c] = x <=> bookOfCode[c] = x
    BY DEF CodesOf
  <2> QED BY <1>1, <1>2, BooksAssumption
<1>4. CodesOf(b)' = CodesOf(b) \cup new
  BY <1>1 DEF CodesOf
<1>5. CodesOf(b) \cap new = {}
  BY <1>1, <1>2, BooksAssumption DEF CodesOf
<1>6. Cardinality(CodesOf(b) \cup new)
        = Cardinality(CodesOf(b)) + Cardinality(new) - Cardinality({})
  BY <1>5, CodesOfFinite, InsertedFinite, FS_Union
<1> QED BY <1>3, <1>4, <1>6, CodesOfFinite, InsertedFinite, FS_EmptySet

\* The codes of the transaction become rows of its book, and only of it.
LEMMA CommitKeeps ==
  ASSUME BooksInv, BooksTypeOK', NEW r \in Requests, CommitCodes(r)
  PROVE  BooksInv'
<1> DEFINE new == inserted[r]
           b == req[r].book
<1> USE DEF BooksInv
<1>1. /\ pc[r] = "insertCodes" /\ r \notin committed
      /\ committed' = committed \cup {r} /\ pc'[r] = "done"
      /\ \A q \in Requests \ {r} : pc'[q] = pc[q] /\ resp'[q] = resp[q]
      /\ UNCHANGED <<exists, isActive, req, entity, loaded, work, inserted>>
      /\ b \in Books /\ new \subseteq Codes
      /\ req[r].op \in {"upload", "generate"}
  <2>1. /\ pc[r] = "insertCodes" /\ Commit(r)
        /\ UNCHANGED <<exists, isActive, req, entity, loaded, work, inserted>>
    BY DEF CommitCodes
  <2>2. r \notin committed /\ req[r].op \in {"upload", "generate"}
    BY <2>1 DEF BooksOnTheirWay
  <2>3. b \in Books /\ new \subseteq Codes
    BY CallTypes DEF BooksTypeOK
  <2> QED BY <2>1, <2>2, <2>3 DEF Commit, Reply, BooksTypeOK
<1>2. /\ bookOfCode' = [c \in Codes |-> IF c \in new THEN b ELSE bookOfCode[c]]
      /\ totalCodes' = [totalCodes EXCEPT ![b] = @ + Cardinality(new)]
  BY DEF CommitCodes, AddToTotal
<1>3. \A c \in new : ~InTable(c) /\ Inserting(c) = {r}
  BY <1>1 DEF InsertsDisjoint
<1>4. \A c \in Codes : InTable(c)' <=> InTable(c) \/ c \in new
  BY <1>1, <1>2, BooksAssumption DEF InTable
<1>5. BooksOnTheirWay'
  BY <1>1 DEF BooksOnTheirWay
<1>6. InsertsDisjoint'
  <2> SUFFICES ASSUME NEW q \in Requests, pc'[q] = "insertCodes",
                      NEW c \in inserted[q]
               PROVE  ~InTable(c)' /\ Inserting(c)' = {q}
    BY <1>1 DEF InsertsDisjoint
  <2>1. q # r /\ pc[q] = "insertCodes" /\ c \in Codes
    BY <1>1 DEF BooksTypeOK
  <2>2. ~InTable(c) /\ Inserting(c) = {q}
    BY <2>1 DEF InsertsDisjoint
  <2>3. c \notin new
    BY <1>3, <2>1, <2>2
  <2>4. Inserting(c)' = {q}
    BY <1>1, <2>1, <2>2 DEF Inserting
  <2> QED BY <1>4, <2>1, <2>2, <2>3, <2>4
<1>7. CodesReportedOnce'
  <2> SUFFICES ASSUME NEW c \in Codes
               PROVE  LET reporters == {q \in committed' : c \in inserted[q]}
                      IN /\ InTable(c)' <=> reporters # {}
                         /\ \A q \in reporters :
                              reporters = {q} /\ bookOfCode'[c] = req[q].book
    BY <1>1 DEF CodesReportedOnce
  <2>0. /\ InTable(c) <=> {q \in committed : c \in inserted[q]} # {}
        /\ \A q \in {p \in committed : c \in inserted[p]} :
             /\ {p \in committed : c \in inserted[p]} = {q}
             /\ bookOfCode[c] = req[q].book
    BY DEF CodesReportedOnce
  <2>1. CASE c \in new
    <3>1. {q \in committed' : c \in inserted[q]} = {r}
      BY <1>1, <1>3, <2>0, <2>1
    <3> QED BY <1>2, <1>4, <2>1, <3>1
  <2>2. CASE c \notin new
    <3>1. {q \in committed' : c \in inserted[q]}
            = {q \in committed : c \in inserted[q]}
      BY <1>1, <2>2
    <3> QED BY <1>2, <1>4, <2>0, <2>2, <3>1
  <2> QED BY <2>1, <2>2
<1>8. TotalCodesTrusted'
  <2>1. \A x \in Books \ {b} : CodesOf(x)' = CodesOf(x)
    BY CommitCounts
  <2>2. Cardinality(CodesOf(b)') = Cardinality(CodesOf(b)) + Cardinality(new)
    BY CommitCounts
  <2> SUFFICES ASSUME NEW x \in Books
               PROVE  /\ isActive[x] => totalCodes'[x] = Cardinality(CodesOf(x)')
                      /\ totalCodes'[x] <= Cardinality(CodesOf(x)')
                      /\ \A q \in Requests : req[q].book = x =>
                           entity[q] <= Cardinality(CodesOf(x)')
    BY <1>1 DEF TotalCodesTrusted
  <2>3. CASE x = b
    <3>1. /\ totalCodes[b] \in Nat /\ \A q \in Requests : entity[q] \in Nat
          /\ totalCodes'[b] = totalCodes[b] + Cardinality(new)
      BY <1>1, <1>2 DEF BooksTypeOK
    <3>2. Cardinality(CodesOf(b)) \in Nat /\ Cardinality(new) \in Nat
      BY CodesOfFinite, InsertedFinite
    <3>3. /\ isActive[b] => totalCodes[b] = Cardinality(CodesOf(b))
          /\ totalCodes[b] <= Cardinality(CodesOf(b))
          /\ \A q \in Requests : req[q].book = b =>
               entity[q] <= Cardinality(CodesOf(b))
      BY <1>1 DEF TotalCodesTrusted
    <3> DEFINE before == Cardinality(CodesOf(b))
               after == Cardinality(CodesOf(b)')
               more == Cardinality(new)
    <3>4. /\ isActive[b] => totalCodes'[b] = after
          /\ totalCodes'[b] <= after
          /\ \A q \in Requests : req[q].book = b => entity[q] <= after
      <4>1. after = before + more
        BY <2>2
      <4>2. before \in Nat /\ more \in Nat
        BY <3>2
      <4>3. /\ isActive[b] => totalCodes[b] = before
            /\ totalCodes[b] <= before
            /\ \A q \in Requests : req[q].book = b => entity[q] <= before
        BY <3>3
      <4>4. totalCodes'[b] = totalCodes[b] + more
        BY <3>1
      <4> HIDE DEF before, after, more
      <4> QED BY <3>1, <4>1, <4>2, <4>3, <4>4
    <3>5. CodesOf(x)' = CodesOf(b)'
      BY <1>1, <2>3 DEF CodesOf
    <3> QED BY <2>3, <3>4, <3>5
  <2>4. CASE x # b
    BY <1>2, <2>1, <2>4 DEF TotalCodesTrusted, BooksTypeOK
  <2> QED BY <2>3, <2>4
<1>9. ReportedTotalsHold'
  <2> SUFFICES ASSUME NEW q \in Requests PROVE AnswerHolds(q)'
    BY DEF ReportedTotalsHold
  <2> DEFINE before == Cardinality(CodesOf(req[q].book))
             after == Cardinality(CodesOf(req[q].book)')
  <2>0. /\ before \in Nat /\ entity[q] \in Nat /\ told[q].total \in Nat
        /\ Cardinality(new) \in Nat /\ entity[q] <= before
    BY CallTypes, CodesOfFinite, InsertedFinite DEF BooksTypeOK, TotalCodesTrusted
  <2>1. req[q].book = b => after = before + Cardinality(new)
    <3> SUFFICES ASSUME req[q].book = b
                 PROVE  CodesOf(req[q].book) = CodesOf(b) /\ CodesOf(req[q].book)' = CodesOf(b)'
      BY CommitCounts
    <3> QED BY <1>1 DEF CodesOf
  <2>2. req[q].book # b => after = before
    <3>1. req[q].book # b => CodesOf(req[q].book)' = CodesOf(req[q].book)
      <4>1. \A x \in Books \ {b} : {c \in Codes : bookOfCode'[c] = x} = CodesOf(x)
        BY CommitCounts DEF CodesOf
      <4> QED BY <1>1, <4>1, CallTypes DEF CodesOf
    <3> QED BY <3>1
  <2>3. /\ AnswerHolds(q) /\ req'[q] = req[q]
        /\ q # r => told'[q] = told[q] /\ resp'[q] = resp[q]
        /\ q = r => told'[q].total = entity[q] + Cardinality(new)
    BY <1>1 DEF ReportedTotalsHold, CommitCodes, AnsweredTotal, NothingTold, BooksTypeOK
  <2>4. CASE q = r
    <3>1. told'[q].total <= after
      <4> HIDE DEF before, after, new
      <4> QED BY <2>0, <2>1, <2>3, <2>4
    <3> QED BY <1>1, <2>4, <3>1 DEF AnswerHolds
  <2>5. CASE q # r
    <3>1. told[q].total <= before => told[q].total <= after
      <4> HIDE DEF before, after, new
      <4> QED BY <2>0, <2>1, <2>2
    <3> QED BY <1>1, <2>3, <2>5, <3>1 DEF AnswerHolds
  <2> QED BY <2>4, <2>5
<1> QED BY <1>5, <1>6, <1>7, <1>8, <1>9

\* save() writes a total it read earlier, but only of a book that is, or that
\* it makes, inactive.
LEMMA SaveKeeps ==
  ASSUME BooksInv, BooksTypeOK', NEW r \in Requests, Save(r)
  PROVE  BooksInv'
<1> DEFINE b == req[r].book
<1> USE DEF BooksInv
<1>1. /\ pc[r] = "save" /\ r \notin committed /\ inserted[r] = {}
      /\ committed' = committed \cup {r}
      /\ \/ pc'[r] = "statistics" /\ resp' = resp
         \/ pc'[r] = "done" /\ resp'[r] = "serverError"
      /\ resp[r] = "none"
      /\ \A q \in Requests \ {r} : pc'[q] = pc[q] /\ resp'[q] = resp[q]
      /\ UNCHANGED <<exists, bookOfCode, req, entity, loaded, work, inserted, told>>
      /\ b \in Books
  <2>1. /\ pc[r] = "save" /\ CommitAndCount(r)
        /\ UNCHANGED <<exists, bookOfCode, req, entity, loaded, work, inserted, told>>
    BY DEF Save
  <2>2. r \notin committed /\ inserted[r] = {} /\ resp[r] = "none"
    BY <2>1 DEF BooksOnTheirWay
  <2>3. b \in Books
    BY CallTypes DEF BooksTypeOK
  <2> QED BY <2>1, <2>2, <2>3 DEF CommitAndCount, Goto, Reply, BooksTypeOK
<1>2. /\ ~isActive'[b]
      /\ \A x \in Books \ {b} : /\ isActive'[x] = isActive[x]
                                /\ totalCodes'[x] = totalCodes[x]
      /\ totalCodes'[b] \in {totalCodes[b], entity[r]}
  BY <1>1 DEF Save, BooksTypeOK, BooksOnTheirWay
<1>3. BooksOnTheirWay'
  <2> SUFFICES ASSUME NEW q \in Requests, pc'[q] = "save", ~loaded[q].isActive
               PROVE  ~isActive'[req[q].book]
    BY <1>1 DEF BooksOnTheirWay
  <2>1. ~isActive[req[q].book] /\ req[q].book \in Books
    BY <1>1, CallTypes DEF BooksOnTheirWay
  <2> QED BY <1>2, <2>1
<1>4. InsertsDisjoint'
  BY <1>1 DEF InsertsDisjoint, Inserting, InTable
<1>5. CodesReportedOnce'
  <2>1. \A c \in Codes : {q \in committed' : c \in inserted'[q]}
                           = {q \in committed : c \in inserted[q]}
    BY <1>1
  <2> QED BY <1>1, <2>1 DEF CodesReportedOnce, InTable
<1>6. TotalCodesTrusted'
  BY <1>1, <1>2 DEF TotalCodesTrusted, CodesOf
<1>7. ReportedTotalsHold'
  <2> SUFFICES ASSUME NEW q \in Requests PROVE AnswerHolds(q)'
    BY DEF ReportedTotalsHold
  <2> QED BY <1>1 DEF ReportedTotalsHold, AnswerHolds, CodesOf
<1> QED BY <1>3, <1>4, <1>5, <1>6, <1>7

LEMMA BooksInvInit == Init => BooksInv
<1> SUFFICES ASSUME Init PROVE BooksInv OBVIOUS
<1>1. \A c \in Codes : ~InTable(c)
  BY DEF Init, InTable
<1>2. \A b \in Books : CodesOf(b) = {}
  BY BooksAssumption DEF Init, CodesOf
<1>3. TotalCodesTrusted
  <2>1. \A b \in Books : Cardinality(CodesOf(b)) = 0 /\ totalCodes[b] = 0
    BY <1>2, FS_EmptySet DEF Init
  <2>2. \A r \in Requests : entity[r] = 0
    BY DEF Init
  <2> QED BY <2>1, <2>2 DEF TotalCodesTrusted
<1>4. /\ BooksOnTheirWay /\ InsertsDisjoint /\ CodesReportedOnce
      /\ ReportedTotalsHold
  BY <1>1 DEF Init, BooksOnTheirWay, InsertsDisjoint, CodesReportedOnce,
              ReportedTotalsHold, AnswerHolds
<1> QED BY <1>3, <1>4, BooksInitType DEF BooksInv

LEMMA BooksInvNext == BooksInv /\ [Next]_vars => BooksInv'
<1> SUFFICES ASSUME BooksInv, [Next]_vars PROVE BooksInv' OBVIOUS
<1>0. BooksTypeOK'
  BY BooksNextType DEF BooksInv
<1>1. CASE UNCHANGED vars
  <2> USE <1>1 DEF vars, tableVars, handlerVars
  <2>1. BooksOnTheirWay' /\ ReportedTotalsHold'
    BY DEF BooksInv, BooksOnTheirWay, ReportedTotalsHold, AnswerHolds, CodesOf
  <2>2. InsertsDisjoint' /\ CodesReportedOnce'
    BY DEF BooksInv, InsertsDisjoint, Inserting, InTable, CodesReportedOnce
  <2>3. TotalCodesTrusted'
    BY DEF BooksInv, TotalCodesTrusted, CodesOf
  <2> QED BY <1>0, <2>1, <2>2, <2>3 DEF BooksInv
<1>2. ASSUME NEW r \in Requests, Handler(r) \/ DatabaseFailure(r)
      PROVE  BooksInv'
  <2>1. CASE InsertCode(r)
    BY <1>0, <2>1, InsertKeeps
  <2>2. CASE CommitCodes(r)
    BY <1>0, <2>2, CommitKeeps
  <2>3. CASE Save(r)
    BY <1>0, <2>3, SaveKeeps
  <2>4. CASE ~InsertCode(r) /\ ~CommitCodes(r) /\ ~Save(r)
    BY <1>0, <1>2, <2>4, QuietStep, QuietKeeps
  <2> QED BY <2>1, <2>2, <2>3, <2>4
<1> QED BY <1>1, <1>2 DEF Next

\* The strengthening holds in every reachable state of the book service.
THEOREM BooksInvariant == Spec => []BooksInv
<1> QED BY BooksInvInit, BooksInvNext, PTL DEF Spec

\* total_codes of an active book is the number of its codes, and no book ever
\* claims more codes than it has, whatever calls interleave and fail.
THEOREM TotalsAreTrusted == Spec => []TotalCodesTrusted
<1>1. BooksInv => TotalCodesTrusted
  BY DEF BooksInv
<1> QED BY <1>1, BooksInvariant, PTL

\* Each code in the table was reported by exactly one call, of its book.
THEOREM CodesAreReportedOnce == Spec => []CodesReportedOnce
<1>1. BooksInv => CodesReportedOnce
  BY DEF BooksInv
<1> QED BY <1>1, BooksInvariant, PTL

\* No answer promises codes that are not there: the total of create, get and
\* deactivate exceeds the codes listed by no more than the locked ones that are
\* left out, and an upload never tells more than the codes of its book
\* (coupon-books.service.ts:234-241, 294-322).
THEOREM ReportedTotalsAreThere == Spec => []ReportedTotalsHold
<1>1. BooksInv => ReportedTotalsHold
  BY DEF BooksInv
<1> QED BY <1>1, BooksInvariant, PTL

-------------------------------------------------------------------------------
\* The registry of codes.

LEMMA BooksFoundInit == Init => BooksFound
BY DEF Init, BooksFound

LEMMA BooksFoundNext == BooksTypeOK /\ BooksFound /\ [Next]_vars => BooksFound'
<1> SUFFICES ASSUME BooksTypeOK, BooksFound, [Next]_vars PROVE BooksFound'
  OBVIOUS
<1>1. CASE UNCHANGED vars
  BY <1>1 DEF BooksFound, vars, tableVars, handlerVars
<1>2. ASSUME NEW r \in Requests, Handler(r) \/ DatabaseFailure(r)
      PROVE  BooksFound'
  <2>1. exists \subseteq exists' /\ req' = req
    BY <1>2 DEF Handler, DatabaseFailure, DeadlockVictim, FindTitle, InsertBook, FindBook,
                CountCodes, InsertCode, CommitCodes, Reload, Save, BuildBookResponse,
                Rollback, tableVars
  <2>2. \A q \in Requests \ {r} : pc'[q] = pc[q]
    BY <1>2 DEF Handler, DatabaseFailure, DeadlockVictim, FindTitle, InsertBook, FindBook,
                CountCodes, InsertCode, CommitCodes, Reload, Save, BuildBookResponse,
                Rollback, Commit, CommitAndCount, Reply, Goto, BooksTypeOK
  <2>3. pc'[r] \in {"countCodes", "insertCodes", "reload", "save"} => req[r].book \in exists
    <3>1. CASE FindBook(r)
      BY <3>1 DEF FindBook, Reply, BooksTypeOK
    <3>2. CASE ~FindBook(r)
      <4>1. \/ pc'[r] \in {"insertBook", "statistics", "done"}
            \/ pc'[r] = pc[r]
            \/ pc[r] = "countCodes"
            \/ pc[r] = "reload"
        BY <1>2, <3>2 DEF Handler, DatabaseFailure, DeadlockVictim, FindTitle, InsertBook,
                CountCodes, InsertCode, CommitCodes, Reload, Save, BuildBookResponse,
                Rollback, Commit, CommitAndCount, Reply, Goto, BooksTypeOK
      <4> QED BY <4>1 DEF BooksFound
    <3> QED BY <3>1, <3>2
  <2> QED BY <2>1, <2>2, <2>3 DEF BooksFound
<1> QED BY <1>1, <1>2 DEF Next

\* The registry counts as the service does.
LEMMA SameCardinality == \A S : Registry!Cardinality(S) = Cardinality(S)
BY Zenon DEF Cardinality, IsFiniteSet, Registry!Cardinality, Registry!IsFiniteSet

LEMMA RegistryInit == Init => Registry!Init
BY DEF Init, Registry!Init

\* Every step creates a book, registers the codes of a call, closes a book, or
\* leaves the registry as it is.
LEMMA RegistryStep ==
  BooksInv /\ BooksFound /\ [Next]_vars => [Registry!Next]_(Registry!vars)
<1> SUFFICES ASSUME BooksInv, BooksFound, [Next]_vars
             PROVE  [Registry!Next]_(Registry!vars)
  OBVIOUS
<1> USE DEF BooksInv
<1>1. CASE UNCHANGED vars
  BY <1>1 DEF vars, tableVars, Registry!vars
<1>2. ASSUME NEW r \in Requests, Handler(r) \/ DatabaseFailure(r)
      PROVE  [Registry!Next]_(Registry!vars)
  <2> DEFINE b == req[r].book
  <2>0. b \in Books
    BY CallTypes DEF BooksTypeOK
  <2>1. CASE InsertBook(r)
    <3>1. exists' = exists \cup {b} /\ UNCHANGED <<isActive, bookOfCode, totalCodes>>
      BY <2>1 DEF InsertBook
    <3>2. CASE b \in exists
      BY <3>1, <3>2 DEF Registry!vars
    <3>3. CASE b \notin exists
      BY <2>0, <3>1, <3>3 DEF Registry!Next, Registry!Create
    <3> QED BY <3>2, <3>3
  <2>2. CASE CommitCodes(r)
    <3>1. /\ totalCodes' = [totalCodes EXCEPT ![b] = @ + Cardinality(inserted[r])]
          /\ bookOfCode' = [c \in Codes |-> IF c \in inserted[r] THEN b ELSE bookOfCode[c]]
          /\ UNCHANGED <<exists, isActive>> /\ pc[r] = "insertCodes"
      BY <2>2 DEF CommitCodes, AddToTotal
    <3>2. b \in exists
      BY <3>1 DEF BooksFound
    <3>3. inserted[r] \in SUBSET Codes /\ \A c \in inserted[r] : bookOfCode[c] = NoBook
      BY <3>1 DEF InsertsDisjoint, InTable, BooksTypeOK
    <3>4. Registry!Register(b, inserted[r])
      <4> HIDE DEF b
      <4> QED BY <3>1, <3>2, <3>3, SameCardinality DEF Registry!Register
    <3> QED BY <2>0, <3>3, <3>4 DEF Registry!Next
  <2>3. CASE Save(r)
    <3>1. pc[r] = "save" /\ UNCHANGED <<exists, bookOfCode>>
      BY <2>3 DEF Save
    <3>2. b \in exists
      BY <3>1 DEF BooksFound
    <3>3. isActive' = [isActive EXCEPT ![b] = FALSE]
      <4>1. CASE loaded[r].isActive
        BY <2>3, <4>1 DEF Save
      <4>2. CASE ~loaded[r].isActive
        <5>1. isActive' = isActive /\ ~isActive[b]
          BY <2>3, <3>1, <4>2 DEF Save, BooksOnTheirWay
        <5>2. isActive = [isActive EXCEPT ![b] = FALSE]
          BY <2>0, <5>1 DEF BooksTypeOK
        <5> QED BY <5>1, <5>2
      <4> QED BY <4>1, <4>2
    <3>4. \/ totalCodes' = totalCodes
          \/ totalCodes' = [totalCodes EXCEPT ![b] = entity[r]]
      BY <2>3 DEF Save
    <3>5. entity[r] \in 0 .. Cardinality({c \in Codes : bookOfCode[c] = b})
      <4>1. entity[r] \in Nat /\ entity[r] <= Cardinality(CodesOf(b))
        BY <2>0 DEF TotalCodesTrusted, BooksTypeOK
      <4>2. Cardinality(CodesOf(b)) \in Nat
        BY CodesOfFinite
      <4> QED BY <4>1, <4>2 DEF CodesOf
    <3>6. Registry!Close(b)
      <4> HIDE DEF b
      <4> QED BY <3>1, <3>2, <3>3, <3>4, <3>5, SameCardinality DEF Registry!Close
    <3> QED BY <2>0, <3>6 DEF Registry!Next
  <2>4. CASE ~InsertBook(r) /\ ~CommitCodes(r) /\ ~Save(r)
    <3>1. UNCHANGED tableVars
      BY <1>2, <2>4 DEF Handler, DatabaseFailure, DeadlockVictim, FindTitle, FindBook,
              CountCodes, InsertCode, Reload, BuildBookResponse, Rollback
    <3> QED BY <3>1 DEF tableVars, Registry!vars
  <2> QED BY <2>1, <2>2, <2>3, <2>4
<1> QED BY <1>1, <1>2 DEF Next

\* Whatever calls interleave, fail and deadlock, codes enter the table with their
\* whole upload and its number, into one book for ever, and only deactivation
\* makes total_codes anything else than the count of the codes.
THEOREM RegistryImplemented == Spec => ImplementsRegistry
<1>1. Spec => []BooksFound
  BY BooksFoundInit, BooksFoundNext, BooksTypeCorrect, PTL DEF Spec
<1> QED
  BY <1>1, RegistryInit, RegistryStep, BooksInvariant, PTL
  DEF Spec, ImplementsRegistry, Registry!Spec

-------------------------------------------------------------------------------
\* total_codes, while no book is deactivated during an upload into it.

LEMMA SaveLeavesTotalInit == Init => SaveLeavesTotal
<1> SUFFICES ASSUME Init PROVE SaveLeavesTotal OBVIOUS
<1>1. \A b \in Books : CodesOf(b) = {}
  BY BooksAssumption DEF Init, CodesOf
<1> QED BY <1>1, FS_EmptySet DEF Init, SaveLeavesTotal

\* Only FindBook and Reload read the row for save().
LEMMA QuietReads ==
  ASSUME BooksInv, NEW r \in Requests, Handler(r) \/ DatabaseFailure(r),
         ~InsertCode(r), ~CommitCodes(r), ~Save(r),
         pc'[r] \in {"reload", "save"}
  PROVE  \/ pc'[r] = "reload" /\ entity'[r] = totalCodes[req[r].book]
         \/ /\ pc[r] = "reload" /\ pc'[r] = "save" /\ entity' = entity
            /\ loaded'[r].totalCodes = totalCodes[req[r].book]
<1> USE DEF BooksInv, BooksTypeOK
<1>1. CASE FindBook(r)
  <2>1. pc'[r] # "save" /\ pc'[r] # "done"
    BY <1>1 DEF FindBook, Reply, Goto
  <2>2. entity' = [entity EXCEPT ![r] = totalCodes[req[r].book]]
    BY <1>1, <2>1 DEF FindBook, Reply
  <2> QED BY <2>1, <2>2
<1>2. CASE Reload(r)
  BY <1>2 DEF Reload, Goto
<1>3. CASE ~FindBook(r) /\ ~Reload(r)
  BY <1>3 DEF Handler, DatabaseFailure, DeadlockVictim, FindTitle, InsertBook, CountCodes,
              BuildBookResponse, Rollback, CommitAndCount, Reply, Goto
<1> QED BY <1>1, <1>2, <1>3

LEMMA SaveLeavesTotalNext ==
  BooksInv /\ SaveLeavesTotal /\ SavesApart /\ [Next]_vars => SaveLeavesTotal'
<1> SUFFICES ASSUME BooksInv, SaveLeavesTotal, SavesApart, [Next]_vars
             PROVE  SaveLeavesTotal'
  OBVIOUS
<1> USE DEF BooksInv
<1>1. CASE UNCHANGED vars
  BY <1>1 DEF SaveLeavesTotal, CodesOf, vars, tableVars, handlerVars
<1>2. ASSUME NEW r \in Requests, Handler(r) \/ DatabaseFailure(r)
      PROVE  SaveLeavesTotal'
  <2> DEFINE b == req[r].book
  <2>0. \A q \in Requests : req[q].book \in Books
    BY CallTypes DEF BooksTypeOK
  <2>1. CASE InsertCode(r)
    BY <2>1 DEF InsertCode, SaveLeavesTotal, CodesOf, tableVars
  <2>2. CASE CommitCodes(r)
    <3>1. /\ pc[r] = "insertCodes" /\ pc'[r] = "done"
          /\ totalCodes' = [totalCodes EXCEPT ![b] = @ + Cardinality(inserted[r])]
          /\ UNCHANGED <<req, entity, loaded>>
          /\ \A q \in Requests \ {r} : pc'[q] = pc[q]
      BY <2>2 DEF CommitCodes, AddToTotal, Commit, Reply, BooksTypeOK
    <3>2. \A x \in Books : totalCodes'[x] = Cardinality(CodesOf(x)')
      <4> SUFFICES ASSUME NEW x \in Books PROVE totalCodes'[x] = Cardinality(CodesOf(x)')
        OBVIOUS
      <4>1. CASE x = b
        <5>1. totalCodes'[b] = Cardinality(CodesOf(b)) + Cardinality(inserted[r])
          BY <2>0, <3>1 DEF SaveLeavesTotal, BooksTypeOK
        <5>2. totalCodes'[b] = Cardinality(CodesOf(b)')
          BY <2>2, <5>1, CommitCounts
        <5>3. CodesOf(x)' = CodesOf(b)'
          BY <3>1, <4>1 DEF CodesOf
        <5> QED BY <4>1, <5>2, <5>3
      <4>2. CASE x # b
        BY <2>2, <3>1, <4>2, CommitCounts DEF SaveLeavesTotal, BooksTypeOK
      <4> QED BY <4>1, <4>2
    <3>3. \A q \in Requests : pc'[q] \in {"reload", "save"} =>
            q # r /\ pc[q] = pc'[q] /\ totalCodes'[req[q].book] = totalCodes[req[q].book]
      BY <2>0, <3>1 DEF SavesApart, BooksTypeOK
    <3> QED BY <3>1, <3>2, <3>3 DEF SaveLeavesTotal
  <2>3. CASE Save(r)
    <3>1. /\ totalCodes' = totalCodes /\ UNCHANGED <<bookOfCode, req, entity, loaded>>
          /\ pc'[r] \in {"statistics", "done"}
          /\ \A q \in Requests \ {r} : pc'[q] = pc[q]
      BY <2>3 DEF Save, SaveLeavesTotal, CommitAndCount, Reply, Goto, BooksTypeOK
    <3> QED BY <3>1 DEF SaveLeavesTotal, CodesOf
  <2>4. CASE ~InsertCode(r) /\ ~CommitCodes(r) /\ ~Save(r)
    <3>1. Quiet(r)
      BY <1>2, <2>4, QuietStep
    <3>2. \A x \in Books : totalCodes'[x] = Cardinality(CodesOf(x)')
      BY <3>1 DEF Quiet, SaveLeavesTotal, CodesOf
    <3>3. ASSUME NEW q \in Requests, pc'[q] \in {"reload", "save"}
          PROVE  /\ entity'[q] = totalCodes'[req'[q].book]
                 /\ pc'[q] = "save" => loaded'[q].totalCodes = totalCodes'[req'[q].book]
      <4>1. CASE q = r
        BY <1>2, <2>4, <3>1, <3>3, <4>1, QuietReads DEF Quiet, SaveLeavesTotal
      <4>2. CASE q # r
        BY <3>1, <3>3, <4>2 DEF Quiet, SaveLeavesTotal
      <4> QED BY <4>1, <4>2
    <3> QED BY <3>2, <3>3 DEF SaveLeavesTotal
  <2> QED BY <2>1, <2>2, <2>3, <2>4
<1> QED BY <1>1, <1>2 DEF Next

\* total_codes is the number of codes of every book, active or not, as
\* coupon-book.entity.ts says, as long as no book is deactivated while an upload
\* into it is on its way: that is the one window through which save() can write
\* a total that is no longer true.
THEOREM TotalsExactWhenSavesApart == Spec /\ []SavesApart => []TotalCodesIsExact
<1>1. BooksInv /\ SaveLeavesTotal => TotalCodesIsExact
  BY DEF BooksInv, BooksTypeOK, SaveLeavesTotal, TotalCodesIsExact
<1> QED
  BY <1>1, BooksInvariant, SaveLeavesTotalInit, SaveLeavesTotalNext, PTL DEF Spec

-------------------------------------------------------------------------------
\* max_codes, while no two generations for one book overlap.

LEMMA RoomInit == Init => RoomIsLeft /\ MaxCodesKept
<1> SUFFICES ASSUME Init PROVE RoomIsLeft /\ MaxCodesKept OBVIOUS
<1>1. RoomIsLeft
  BY DEF Init, RoomIsLeft, Generated
<1>2. \A b \in Books : Cardinality(CodesOf(b)) = 0
  <2>1. \A b \in Books : CodesOf(b) = {}
    BY BooksAssumption DEF Init, CodesOf
  <2> QED BY <2>1, FS_EmptySet
<1>3. MaxCodesKept
  BY <1>2, BooksAssumption DEF MaxCodesKept
<1> QED BY <1>1, <1>3

\* What a generation counts leaves room for what it will insert.
LEMMA CountLeavesRoom ==
  ASSUME BooksInv, RoomIsLeft, NEW r \in Requests, CountCodes(r), Generated(r)'
  PROVE  Cardinality(CodesOf(req[r].book)) + Len(work'[r]) <= MaxCodes[req[r].book]
<1> USE DEF BooksInv
<1> DEFINE b == req[r].book
           current == Cardinality(CodesOf(b))
           n == CodesToGenerate(MaxCodes[b], current, req[r].count)
<1>1. pc[r] = "countCodes" /\ pc'[r] = "insertCodes" /\ req' = req
  BY DEF CountCodes, Generated
<1>2. req[r].op = "generate" /\ b \in PatternBooks
  BY <1>1 DEF Generated, RoomIsLeft
<1>3. MaxCodes[b] \in Nat /\ current \in Nat /\ req[r].count \in Nat
  BY <1>2, BooksAssumption, CodesOfFinite DEF BooksTypeOK
<1>4. /\ current < MaxCodes[b]
      /\ \E s \in GeneratedCodes(n) : work' = [work EXCEPT ![r] = s]
  <2>1. MaxCodes[b] # NoLimit
    BY <1>2, BooksAssumption
  <2>2. ~Reply(r, "rejected")
    BY <1>1 DEF Reply, BooksTypeOK
  <2> QED BY <2>1, <2>2 DEF CountCodes
<1>5. n \in Nat /\ current + n <= MaxCodes[b]
  BY <1>2, <1>3, <1>4, BooksAssumption DEF CodesToGenerate
<1>6. work'[r] \in [1 .. n -> Codes]
  BY <1>4 DEF GeneratedCodes, BooksTypeOK
<1>7. Len(work'[r]) = n
  <2> HIDE DEF n
  <2> QED BY <1>5, <1>6
<1> QED BY <1>5, <1>7

\* A step that neither inserts nor commits codes moves one handler, and lets it
\* count or insert only for a book of its kind.
LEMMA MovesAlone ==
  ASSUME BooksInv, RoomIsLeft, NEW r \in Requests, Handler(r) \/ DatabaseFailure(r),
         ~InsertCode(r), ~CommitCodes(r)
  PROVE  /\ UNCHANGED <<bookOfCode, req>>
         /\ \A q \in Requests \ {r} : /\ pc'[q] = pc[q] /\ work'[q] = work[q]
                                      /\ inserted'[q] = inserted[q]
         /\ pc'[r] \in {"countCodes", "insertCodes"} =>
              (req[r].book \in PatternBooks <=> req[r].op = "generate")
         /\ Generated(r)' => CountCodes(r) /\ inserted'[r] = {}
<1> USE DEF BooksInv, BooksTypeOK
<1>1. CASE FindBook(r)
  <2>1. /\ UNCHANGED <<tableVars, req, inserted>>
        /\ \A q \in Requests \ {r} : pc'[q] = pc[q] /\ work'[q] = work[q]
    BY <1>1 DEF FindBook, Reply, Goto
  <2>2. \/ pc'[r] \notin {"countCodes", "insertCodes"}
        \/ RightKind(r) /\ (pc'[r] = "insertCodes" => req[r].op = "upload")
    BY <1>1 DEF FindBook, Reply, Goto
  <2> QED BY <2>1, <2>2 DEF tableVars, RightKind, Generated
<1>2. CASE CountCodes(r)
  <2>1. /\ pc[r] = "countCodes" /\ UNCHANGED <<tableVars, req, inserted>>
        /\ \A q \in Requests \ {r} : pc'[q] = pc[q] /\ work'[q] = work[q]
    BY <1>2 DEF CountCodes, Reply, Goto
  <2>2. inserted'[r] = {}
    BY <2>1 DEF BooksOnTheirWay
  <2>3. req[r].book \in PatternBooks <=> req[r].op = "generate"
    BY <2>1 DEF RoomIsLeft
  <2> QED BY <1>2, <2>1, <2>2, <2>3 DEF tableVars
<1>3. CASE ~FindBook(r) /\ ~CountCodes(r)
  <2>1. /\ UNCHANGED <<bookOfCode, req, work>>
        /\ \A q \in Requests \ {r} : pc'[q] = pc[q] /\ inserted'[q] = inserted[q]
        /\ pc'[r] \notin {"countCodes", "insertCodes"}
    BY <1>3 DEF Handler, DatabaseFailure, DeadlockVictim, FindTitle, InsertBook, Reload,
                Save, BuildBookResponse, Rollback, CommitAndCount, Reply, Goto, tableVars
  <2> QED BY <2>1 DEF Generated
<1> QED BY <1>1, <1>2, <1>3

LEMMA RoomNext ==
  BooksInv /\ BooksTypeOK' /\ RoomIsLeft /\ MaxCodesKept /\ GenerationsApart /\ [Next]_vars
    => RoomIsLeft' /\ MaxCodesKept'
<1> SUFFICES ASSUME BooksInv, BooksTypeOK', RoomIsLeft, MaxCodesKept,
                    GenerationsApart, [Next]_vars
             PROVE  RoomIsLeft' /\ MaxCodesKept'
  OBVIOUS
<1> USE DEF BooksInv
<1>1. CASE UNCHANGED vars
  BY <1>1 DEF RoomIsLeft, MaxCodesKept, Generated, CodesOf, vars, tableVars, handlerVars
<1>2. ASSUME NEW r \in Requests, Handler(r) \/ DatabaseFailure(r)
      PROVE  RoomIsLeft' /\ MaxCodesKept'
  <2>0. /\ \A q \in Requests : req[q].book \in Books
        /\ \A b \in PatternBooks : MaxCodes[b] \in Nat
    BY BooksAssumption, CallTypes
  <2>1. CASE InsertCode(r)
    <3> DEFINE c == Head(work[r])
               mine == inserted[r]
    <3>1. /\ work[r] # <<>> /\ UNCHANGED <<bookOfCode, req, pc>>
          /\ work' = [work EXCEPT ![r] = Tail(@)]
          /\ inserted' \in {inserted, [inserted EXCEPT ![r] = @ \cup {c}]}
      BY <2>1 DEF InsertCode, tableVars
    <3>2. Len(work[r]) \in Nat /\ Len(work'[r]) = Len(work[r]) - 1
      BY <3>1 DEF BooksTypeOK
    <3>3. Cardinality(inserted'[r]) \in Nat /\ Cardinality(inserted'[r]) <= Cardinality(mine) + 1
      <4>1. IsFiniteSet(mine) /\ Cardinality(mine) \in Nat
        BY InsertedFinite
      <4>2. inserted'[r] \in {mine, mine \cup {c}}
        BY <3>1 DEF BooksTypeOK
      <4> HIDE DEF mine, c
      <4> QED BY <4>1, <4>2, FS_AddElement
    <3>4. \A b : CodesOf(b)' = CodesOf(b)
      BY <3>1 DEF CodesOf
    <3>5. ASSUME NEW q \in Requests, Generated(q)
          PROVE  Cardinality(CodesOf(req[q].book)) + Cardinality(inserted'[q]) + Len(work'[q])
                   <= MaxCodes[req[q].book]
      <4> DEFINE there == Cardinality(CodesOf(req[q].book))
                 max == MaxCodes[req[q].book]
      <4>1. there \in Nat /\ max \in Nat /\ Cardinality(inserted[q]) \in Nat
        BY <2>0, <3>5, CodesOfFinite, InsertedFinite DEF RoomIsLeft, Generated
      <4>2. there + Cardinality(inserted[q]) + Len(work[q]) <= max
        BY <3>5 DEF RoomIsLeft
      <4> HIDE DEF there, max
      <4>3. there + Cardinality(inserted'[q]) + Len(work'[q]) <= max
        <5>1. CASE q = r
          BY <3>2, <3>3, <4>1, <4>2, <5>1
        <5>2. CASE q # r
          <6>1. work'[q] = work[q] /\ inserted'[q] = inserted[q]
            BY <3>1, <5>2 DEF BooksTypeOK
          <6> QED BY <4>2, <6>1
        <5> QED BY <5>1, <5>2
      <4> QED BY <4>3 DEF there, max
    <3>6. RoomIsLeft'
      BY <3>1, <3>4, <3>5 DEF RoomIsLeft, Generated
    <3> QED BY <3>4, <3>6 DEF MaxCodesKept
  <2>2. CASE CommitCodes(r)
    <3>1. /\ pc[r] = "insertCodes" /\ work[r] = <<>> /\ pc'[r] = "done"
          /\ UNCHANGED <<req, work, inserted>>
          /\ \A q \in Requests \ {r} : pc'[q] = pc[q]
      BY <2>2 DEF CommitCodes, Commit, Reply, BooksTypeOK
    <3>2. \A q \in Requests : Generated(q)' =>
            /\ q # r /\ Generated(q)
            /\ Cardinality(CodesOf(req[q].book)') = Cardinality(CodesOf(req[q].book))
      <4> SUFFICES ASSUME NEW q \in Requests, Generated(q)'
                   PROVE  /\ q # r /\ Generated(q)
                          /\ CodesOf(req[q].book)' = CodesOf(req[q].book)
        OBVIOUS
      <4>1. q # r /\ Generated(q)
        BY <3>1 DEF Generated
      <4>2. req[q].book # req[r].book
        BY <3>1, <4>1 DEF RoomIsLeft, GenerationsApart, Generated
      <4>3. CodesOf(req[q].book)' = CodesOf(req[q].book)
        <5>1. \A x \in Books \ {req[r].book} : {c \in Codes : bookOfCode'[c] = x} = CodesOf(x)
          BY <2>2, CommitCounts DEF CodesOf
        <5> QED BY <2>0, <3>1, <4>2, <5>1 DEF CodesOf
      <4> QED BY <4>1, <4>3
    <3>3. RoomIsLeft'
      BY <3>1, <3>2 DEF RoomIsLeft, Generated, CodesOf
    <3>4. ASSUME NEW b \in PatternBooks
          PROVE  Cardinality(CodesOf(b)') <= MaxCodes[b]
      <4>1. CASE b = req[r].book
        <5>1. Generated(r)
          BY <3>1, <4>1 DEF RoomIsLeft, Generated
        <5>2. Cardinality(CodesOf(b)) + Cardinality(inserted[r]) + Len(work[r]) <= MaxCodes[b]
          BY <4>1, <5>1 DEF RoomIsLeft
        <5>3. Len(work[r]) = 0
          BY <3>1
        <5>4. Cardinality(CodesOf(b)) \in Nat /\ Cardinality(inserted[r]) \in Nat
          BY CodesOfFinite, InsertedFinite
        <5>5. Cardinality(CodesOf(b)) + Cardinality(inserted[r]) <= MaxCodes[b]
          BY <5>2, <5>3, <5>4
        <5>6. Cardinality(CodesOf(req[r].book)') <= MaxCodes[b]
          BY <2>2, <4>1, <5>5, CommitCounts
        <5>7. CodesOf(b)' = CodesOf(req[r].book)'
          BY <3>1, <4>1 DEF CodesOf
        <5> QED BY <5>6, <5>7
      <4>2. CASE b # req[r].book
        BY <2>2, <4>2, CommitCounts, BooksAssumption DEF MaxCodesKept
      <4> QED BY <4>1, <4>2
    <3> QED BY <3>3, <3>4 DEF MaxCodesKept
  <2>3. CASE ~InsertCode(r) /\ ~CommitCodes(r)
    <3>1. /\ UNCHANGED <<bookOfCode, req>>
          /\ \A q \in Requests \ {r} : /\ pc'[q] = pc[q] /\ work'[q] = work[q]
                                       /\ inserted'[q] = inserted[q]
          /\ pc'[r] \in {"countCodes", "insertCodes"} =>
               (req[r].book \in PatternBooks <=> req[r].op = "generate")
          /\ Generated(r)' => CountCodes(r) /\ inserted'[r] = {}
      BY <1>2, <2>3, MovesAlone
    <3>2. \A b : CodesOf(b)' = CodesOf(b)
      BY <3>1 DEF CodesOf
    <3>3. Generated(r)' =>
            Cardinality(CodesOf(req[r].book)) + Cardinality(inserted'[r]) + Len(work'[r])
              <= MaxCodes[req[r].book]
      <4> SUFFICES ASSUME Generated(r)'
                   PROVE  Cardinality(CodesOf(req[r].book)) + Cardinality(inserted'[r])
                            + Len(work'[r]) <= MaxCodes[req[r].book]
        OBVIOUS
      <4> DEFINE there == Cardinality(CodesOf(req[r].book))
      <4>1. there + Len(work'[r]) <= MaxCodes[req[r].book]
        BY <3>1, CountLeavesRoom
      <4>2. Cardinality(inserted'[r]) = 0
        BY <3>1, FS_EmptySet
      <4>3. there \in Nat
        BY CodesOfFinite
      <4> HIDE DEF there
      <4>4. there + Cardinality(inserted'[r]) + Len(work'[r]) <= MaxCodes[req[r].book]
        BY <4>1, <4>2, <4>3
      <4> QED BY <4>4 DEF there
    <3>4. RoomIsLeft'
      BY <3>1, <3>2, <3>3 DEF RoomIsLeft, Generated
    <3> QED BY <3>2, <3>4 DEF MaxCodesKept
  <2> QED BY <2>1, <2>2, <2>3
<1> QED BY <1>1, <1>2 DEF Next

\* A book with a pattern never has more codes than max_codes, whatever fails and
\* whatever chance draws, as long as no two generations for it overlap between
\* the count and the commit.
THEOREM MaxCodesKeptWhenGenerationsApart == Spec /\ []GenerationsApart => []MaxCodesKept
<1> QED
  BY RoomInit, RoomNext, BooksInvariant, BooksTypeCorrect, PTL DEF Spec
===============================================================================
