---------------------------- MODULE BookPagesProofs ----------------------------
(***************************************************************************)
(* Reading page after page, for any rows, uploads and limits.              *)
(***************************************************************************)
EXTENDS BookPagesProperties, FiniteSetTheorems, TLAPS

\* Rows are finitely many, and each belongs to one upload.
LEMMA RowFacts ==
  ASSUME PagesTypeOK
  PROVE  /\ IsFiniteSet(Rows) /\ Cardinality(Rows) \in Nat
         /\ \A row \in Rows : UploadOf(row) \in committed /\ Time(row) \in Nat
<1>1. committed \subseteq Uploads /\ Rows \subseteq AllRows
  BY DEF PagesTypeOK, Rows, AllRows
<1>2. IsFiniteSet(Rows) /\ Cardinality(Rows) \in Nat
  BY <1>1, PagesAssumption, FS_Subset, FS_CardinalityType
<1>3. ASSUME NEW row \in Rows PROVE UploadOf(row) \in committed
  <2>1. PICK u \in committed : row \in RowsOf[u]
    BY DEF Rows
  <2>2. \A v \in Uploads : row \in RowsOf[v] => v = u
    BY <2>1, <1>1, PagesAssumption
  <2> QED BY <2>1, <2>2, <1>1 DEF UploadOf
<1> QED BY <1>1, <1>2, <1>3 DEF Time, PagesTypeOK

LEMMA Parts ==
  ASSUME PagesTypeOK, NEW S \in SUBSET Rows
  PROVE  IsFiniteSet(S) /\ Cardinality(S) \in Nat /\ Cardinality(S) <= Cardinality(Rows)
BY RowFacts, FS_Subset, FS_CardinalityType

LEMMA Parameters == ASSUME PagesTypeOK PROVE limit \in Nat \ {0} /\ page \in Nat /\ total \in Nat
BY PagesAssumption DEF PagesTypeOK

\* Math.ceil: the last page is the first that reaches the total.
LEMMA LastPage ==
  ASSUME PagesTypeOK
  PROVE  /\ HasNextPage => page * limit < total
         /\ ~HasNextPage => total <= page * limit
<1> DEFINE n == total + limit - 1
<1>1. limit \in Nat /\ limit > 0 /\ page \in Nat /\ total \in Nat /\ n \in Nat
  BY Parameters
<1>2. PICK q \in Nat : q = TotalPages /\ limit * q <= n /\ n < limit * (q + 1)
  BY <1>1 DEF TotalPages
<1>3. CASE page < q
  <2>1. page + 1 <= q /\ (page + 1) * limit <= q * limit
    BY <1>1, <1>2, <1>3
  <2>2. page * limit + limit <= total + limit - 1
    BY <2>1, <1>1, <1>2
  <2> QED BY <2>2, <1>1, <1>2, <1>3 DEF HasNextPage
<1>4. CASE page >= q
  <2>1. q * limit <= page * limit /\ page * limit \in Nat /\ q * limit \in Nat
    BY <1>1, <1>2, <1>4
  <2>2. total + limit - 1 < q * limit + limit
    BY <1>1, <1>2
  <2> QED BY <2>1, <2>2, <1>1, <1>2, <1>4 DEF HasNextPage
<1> QED BY <1>1, <1>2, <1>3, <1>4

-------------------------------------------------------------------------------
\* Rows stay, keep their time, and are never alone again once they are not.

LEMMA TableGrows ==
  ASSUME PagesInv, [PagesNext]_pagesVars, PagesTypeOK'
  PROVE  /\ Rows \subseteq Rows' /\ Cardinality(Rows) <= Cardinality(Rows)'
         /\ \A row \in Rows : /\ Time(row)' = Time(row)
                              /\ Alone(row)' => Alone(row)
                              /\ Newer(row) \subseteq Newer(row)'
                              /\ Cardinality(Newer(row)) <= Cardinality(Newer(row)')
                              /\ Cardinality(Newer(row)) \in Nat
                              /\ Cardinality(Newer(row)') \in Nat
<1>0. PagesTypeOK BY DEF PagesInv
<1>1. committed \subseteq committed' /\ \A u \in committed : createdAt'[u] = createdAt[u]
  BY <1>0 DEF PagesInv, PagesTypeOK, PagesNext, Begin, AskNext, FindBook, CountRows, FindRows,
              Respond, Fail, Tick, BeginUpload, CommitUpload, pagesVars, tableVars, walkVars
<1>2. Rows \subseteq Rows'
  BY <1>1 DEF Rows
<1>3. \A row \in Rows : Time(row)' = Time(row)
  BY <1>0, <1>1, RowFacts DEF Time, UploadOf
<1>4. \A row \in Rows : (Alone(row)' => Alone(row)) /\ Newer(row) \subseteq Newer(row)'
  BY <1>2, <1>3 DEF Alone, Newer
<1>5. IsFiniteSet(Rows') /\ \A row \in Rows : Newer(row)' \subseteq Rows'
  <2>1. Rows' \subseteq AllRows
    BY DEF Rows, AllRows, PagesTypeOK
  <2> QED BY <2>1, PagesAssumption, FS_Subset DEF Newer
<1>6. \A row \in Rows : /\ Cardinality(Newer(row)) <= Cardinality(Newer(row)')
                        /\ Cardinality(Newer(row)) \in Nat
                        /\ Cardinality(Newer(row)') \in Nat
  BY <1>4, <1>5, FS_Subset, FS_CardinalityType
<1> QED BY <1>2, <1>3, <1>4, <1>5, <1>6, FS_Subset

\* What the SELECT of a page gives.
Selected(skipped, some) ==
  /\ skipped \in SUBSET Rows /\ some \in SUBSET (Rows \ skipped)
  /\ Cardinality(skipped) = Least(Skip, Cardinality(Rows))
  /\ Cardinality(some) = Take(Rows \ skipped)
  /\ FirstOf(skipped, Rows)
  /\ FirstOf(some, Rows \ skipped)

\* A row that is alone at its time and is not on a page, nor before it, has a
\* full page and all pages before it ahead of it.
LEMMA NotGiven ==
  ASSUME PagesTypeOK, page >= 1, NEW skipped, NEW some, Selected(skipped, some),
         NEW row \in Rows, Alone(row), row \notin some, Skip <= Cardinality(Newer(row))
  PROVE  page * limit <= Cardinality(Newer(row)) /\ page * limit < Cardinality(Rows)
<1>1. /\ limit \in Nat \ {0} /\ page \in Nat /\ Skip \in Nat /\ Skip + limit = page * limit
  <2>1. limit \in Nat \ {0} /\ page \in Nat
    BY Parameters
  <2>2. (page - 1) * limit + limit = page * limit /\ page - 1 \in Nat
    BY <2>1
  <2> QED BY <2>1, <2>2 DEF Skip
<1>2. /\ \A other \in Rows : Time(other) \in Nat
      /\ \A other \in Rows \ {row} : Time(other) # Time(row)
  BY RowFacts DEF Alone
<1>3. row \notin Newer(row) /\ Newer(row) \cup {row} \subseteq Rows /\ Newer(row) \subseteq Rows
  BY <1>2 DEF Newer
<1>4. /\ IsFiniteSet(Rows) /\ IsFiniteSet(Newer(row)) /\ IsFiniteSet(skipped) /\ IsFiniteSet(some)
      /\ Cardinality(Rows) \in Nat /\ Cardinality(Newer(row)) \in Nat
      /\ Cardinality(skipped) \in Nat /\ Cardinality(some) \in Nat
  BY <1>3, RowFacts, Parts DEF Selected
<1>5. Cardinality(Newer(row)) + 1 <= Cardinality(Rows)
  <2>1. Cardinality(Newer(row) \cup {row}) = Cardinality(Newer(row)) + 1
    BY <1>3, <1>4, FS_AddElement
  <2> QED BY <2>1, <1>3, <1>4, FS_Subset
<1>6. Cardinality(skipped) = Skip
  BY <1>1, <1>4, <1>5 DEF Selected, Least
<1>7. row \notin skipped
  <2> SUFFICES ASSUME row \in skipped PROVE FALSE OBVIOUS
  <2>1. Newer(row) \cup {row} \subseteq skipped
    BY <1>2 DEF Newer, Selected, FirstOf
  <2>2. Cardinality(Newer(row) \cup {row}) <= Cardinality(skipped)
    BY <2>1, <1>4, FS_Subset
  <2>3. Cardinality(Newer(row) \cup {row}) = Cardinality(Newer(row)) + 1
    BY <1>3, <1>4, FS_AddElement
  <2> QED BY <2>2, <2>3, <1>1, <1>4, <1>6
<1>8. Cardinality(some) = limit
  <2>1. IsFiniteSet(Rows \ skipped) /\ Cardinality(Rows \ skipped) \in Nat
    BY Parts
  <2>2. Cardinality(some) # Cardinality(Rows \ skipped)
    BY <2>1, <1>7, FS_Subset DEF Selected
  <2> QED BY <2>1, <2>2, <1>1, <1>4 DEF Selected, Take, Least
<1>9. skipped \cup some \subseteq Newer(row)
  BY <1>2, <1>7 DEF Selected, FirstOf, Newer
<1>10. Cardinality(skipped \cup some) = Skip + limit
  <2>1. Cardinality(skipped \cap some) = 0
    <3>1. skipped \cap some = {}
      BY DEF Selected
    <3> QED BY <3>1, FS_EmptySet
  <2>2. Cardinality(skipped \cup some)
          = Cardinality(skipped) + Cardinality(some) - Cardinality(skipped \cap some)
    BY <1>4, FS_Union
  <2> HIDE DEF Selected
  <2> QED BY <2>1, <2>2, <1>1, <1>6, <1>8
<1>11. Cardinality(skipped \cup some) <= Cardinality(Newer(row))
  BY <1>4, <1>9, FS_Subset
<1> QED BY <1>1, <1>4, <1>5, <1>10, <1>11

\* A page that is not past the end is not empty.
LEMMA PageNotEmpty ==
  ASSUME PagesTypeOK, page >= 1, NEW skipped, NEW some, Selected(skipped, some),
         Skip < Cardinality(Rows)
  PROVE  some # {}
<1>1. limit \in Nat \ {0} /\ page \in Nat
  BY Parameters
<1>2. IsFiniteSet(Rows) /\ Cardinality(Rows) \in Nat /\ Skip \in Int
  BY <1>1, RowFacts DEF Skip
<1>3. Cardinality(skipped) # Cardinality(Rows)
  BY <1>2 DEF Selected, Least
<1>4. Rows \ skipped # {}
  BY <1>3 DEF Selected
<1>5. IsFiniteSet(Rows \ skipped) /\ Cardinality(Rows \ skipped) \in Nat
  BY Parts
<1>6. Cardinality(Rows \ skipped) # 0
  BY <1>4, <1>5, FS_EmptySet
<1>7. Cardinality(some) # 0
  BY <1>1, <1>5, <1>6 DEF Selected, Take, Least
<1> QED BY <1>7, FS_EmptySet

-------------------------------------------------------------------------------
LEMMA PagesInitInv == PagesInit => PagesInv
<1> SUFFICES ASSUME PagesInit PROVE PagesInv OBVIOUS
<1>1. Rows = {} /\ limit \in Nat \ {0} /\ Cardinality({}) = 0
  BY FS_EmptySet, PagesAssumption DEF PagesInit, Rows
<1> QED BY <1>1 DEF PagesInit, PagesInv, PagesTypeOK, NextPageIsThere, WalkOnTheWay

LEMMA PagesTypeNext == PagesInv /\ [PagesNext]_pagesVars => PagesTypeOK'
<1> SUFFICES ASSUME PagesInv, [PagesNext]_pagesVars PROVE PagesTypeOK' OBVIOUS
<1>0. PagesTypeOK BY DEF PagesInv
<1>1. IsFiniteSet(Rows) /\ Cardinality(Rows) \in Nat
  BY <1>0, RowFacts
<1>2. ASSUME committed' = committed PROVE Rows' = Rows
  BY <1>2 DEF Rows
<1>3. CASE Begin \/ AskNext \/ FindBook \/ CountRows \/ Respond \/ Fail
  <2>1. Rows' = Rows
    BY <1>2, <1>3 DEF Begin, AskNext, FindBook, CountRows, Respond, Fail, tableVars
  <2>2. CASE Begin
    BY <1>0, <2>1, <2>2 DEF PagesTypeOK, Begin, tableVars
  <2>3. CASE AskNext
    BY <1>0, <2>1, <2>3 DEF PagesTypeOK, AskNext, tableVars
  <2>4. CASE FindBook
    BY <1>0, <2>1, <2>4 DEF PagesTypeOK, FindBook, tableVars
  <2>5. CASE CountRows \/ Fail
    BY <1>0, <1>1, <2>1, <2>5 DEF PagesTypeOK, CountRows, Fail, tableVars
  <2>6. CASE Respond
    BY <1>0, <2>1, <2>6 DEF PagesTypeOK, Respond, tableVars
  <2> QED BY <1>3, <2>2, <2>3, <2>4, <2>5, <2>6
<1>4. CASE FindRows
  <2>1. PICK skipped \in SUBSET Rows : \E some \in SUBSET (Rows \ skipped) :
          Cardinality(some) = Take(Rows \ skipped) /\ items' = some
    BY <1>4 DEF FindRows
  <2>2. IsFiniteSet(Rows \ skipped) /\ Cardinality(Rows \ skipped) \in Nat
    BY <1>0, Parts
  <2>3. items' \subseteq Rows /\ Cardinality(items') <= limit
    BY <2>1, <2>2, <1>0, Parameters DEF Take, Least
  <2> QED BY <2>3, <1>0, <1>1, <1>2, <1>4 DEF PagesTypeOK, FindRows, tableVars
<1>5. CASE Tick
  BY <1>0, <1>2, <1>5 DEF PagesTypeOK, Tick, walkVars
<1>6. ASSUME NEW u \in Uploads, BeginUpload(u) \/ CommitUpload(u) PROVE PagesTypeOK'
  <2>1. committed \subseteq committed' /\ committed' \subseteq Uploads
    BY <1>0, <1>6 DEF PagesTypeOK, BeginUpload, CommitUpload
  <2>2. Rows \subseteq Rows'
    BY <2>1 DEF Rows
  <2> QED BY <2>1, <2>2, <1>0, <1>6 DEF PagesTypeOK, BeginUpload, CommitUpload, walkVars
<1>7. CASE UNCHANGED pagesVars
  BY <1>0, <1>2, <1>7 DEF PagesTypeOK, pagesVars, tableVars, walkVars
<1> QED BY <1>3, <1>4, <1>5, <1>6, <1>7 DEF PagesNext

LEMMA WalkNext == PagesInv /\ [PagesNext]_pagesVars => WalkOnTheWay' /\ NextPageIsThere'
<1> SUFFICES ASSUME PagesInv, [PagesNext]_pagesVars PROVE WalkOnTheWay' /\ NextPageIsThere'
  OBVIOUS
<1>0. PagesTypeOK /\ WalkOnTheWay /\ NextPageIsThere BY DEF PagesInv
<1>1. Cardinality(Rows) \in Nat /\ Cardinality(Rows)' \in Nat
      /\ Cardinality(Rows) <= Cardinality(Rows)'
  <2>1. PagesTypeOK' BY PagesTypeNext
  <2>2. IsFiniteSet(Rows') /\ Rows \subseteq Rows'
    <3>1. Rows' \subseteq AllRows
      BY <2>1 DEF Rows, AllRows, PagesTypeOK
    <3> QED BY <3>1, <2>1, TableGrows, PagesAssumption, FS_Subset
  <2> QED BY <2>2, FS_Subset, FS_CardinalityType
<1>2. limit \in Nat \ {0} /\ page \in Nat /\ total \in Nat
  BY <1>0, Parameters
<1>3. ASSUME limit' = limit, page' = page PROVE Skip' = Skip
  BY <1>3 DEF Skip
<1>4. CASE Begin
  BY <1>0, <1>4 DEF WalkOnTheWay, NextPageIsThere, Begin
<1>5. CASE AskNext
  <2>1. Skip' < Cardinality(Rows)'
    BY <1>0, <1>1, <1>2, <1>5 DEF AskNext, Skip, WalkOnTheWay
  <2> QED BY <2>1, <1>0, <1>2, <1>5 DEF WalkOnTheWay, NextPageIsThere, AskNext
<1>6. CASE FindBook
  BY <1>0, <1>1, <1>2, <1>3, <1>6 DEF WalkOnTheWay, NextPageIsThere, FindBook, Skip
<1>7. CASE CountRows
  <2>1. total' = Cardinality(Rows) /\ Rows' = Rows
    BY <1>7 DEF CountRows, tableVars, Rows
  <2> QED BY <2>1, <1>0, <1>1, <1>2, <1>3, <1>7 DEF WalkOnTheWay, NextPageIsThere, CountRows, Skip
<1>8. CASE FindRows
  <2>1. page > 1 => items' # {}
    BY <1>0, <1>8, PageNotEmpty DEF WalkOnTheWay, FindRows, Selected
  <2>2. WalkOnTheWay'
    BY <1>0, <1>1, <1>2, <1>3, <1>8 DEF WalkOnTheWay, FindRows, Skip
  <2> QED BY <2>1, <2>2, <1>8 DEF NextPageIsThere, FindRows
<1>9. CASE Respond
  BY <1>0, <1>1, <1>2, <1>9, LastPage DEF WalkOnTheWay, NextPageIsThere, Respond
<1>10. CASE Fail
  BY <1>0, <1>10 DEF WalkOnTheWay, NextPageIsThere, Fail
<1>11. CASE UNCHANGED walkVars
  BY <1>0, <1>1, <1>2, <1>3, <1>11 DEF WalkOnTheWay, NextPageIsThere, walkVars, Skip
<1> QED BY <1>4, <1>5, <1>6, <1>7, <1>8, <1>9, <1>10, <1>11
        DEF PagesNext, Tick, BeginUpload, CommitUpload, pagesVars

\* A row that is still ahead of the client stays there, or is given.
LEMMA StillAheadNext ==
  ASSUME PagesInv, [PagesNext]_pagesVars, NEW row, row \in begun' \ got'
  PROVE  StillAhead(row)'
<1>0. PagesTypeOK /\ PagesTypeOK' /\ WalkOnTheWay BY PagesTypeNext DEF PagesInv
<1>1. limit \in Nat \ {0} /\ limit' = limit /\ page \in Nat /\ found \in Nat
  <2>1. limit' = limit
    BY DEF PagesNext, Begin, AskNext, FindBook, CountRows, FindRows, Respond, Fail, Tick,
           BeginUpload, CommitUpload, pagesVars, walkVars
  <2> QED BY <2>1, <1>0, Parameters DEF PagesTypeOK
<1>2. CASE Begin
  <2>1. row \in Rows /\ PagesRead' = 0
    BY <1>2 DEF Begin, PagesRead
  <2>2. Cardinality(Newer(row)') \in Nat
    BY <2>1, <1>0, TableGrows
  <2> QED BY <2>1, <2>2, <1>1, <1>2 DEF StillAhead, Begin
<1>3. CASE ~Begin
  <2>1. begun' = begun /\ row \in begun \ got
    BY <1>3 DEF PagesNext, AskNext, FindBook, CountRows, FindRows, Respond, Fail, Tick,
                BeginUpload, CommitUpload, pagesVars, walkVars
  <2>2. StillAhead(row) /\ row \in Rows
    BY <2>1, <1>0 DEF PagesInv, PagesTypeOK
  <2> SUFFICES ASSUME Alone(row)'
               PROVE  /\ PagesRead' * limit <= Cardinality(Newer(row)')
                      /\ pc' = "ended" => page' * limit < found'
                      /\ pc' = "reading" /\ "find" \notin running' /\ row \notin items' =>
                           page' * limit <= Cardinality(Newer(row)') /\ page' * limit < found'
    BY <1>1 DEF StillAhead
  <2>3. /\ Alone(row) /\ Cardinality(Newer(row)) \in Nat /\ Cardinality(Newer(row)') \in Nat
        /\ Cardinality(Newer(row)) <= Cardinality(Newer(row)')
    BY <2>2, <1>0, TableGrows
  <2>4. PagesRead * limit <= Cardinality(Newer(row)) /\ pc # "idle"
    BY <2>1, <2>2, <2>3, <1>0 DEF StillAhead, WalkOnTheWay
  <2>5. PagesRead \in Int /\ PagesRead * limit \in Int /\ page * limit \in Int
    BY <1>1 DEF PagesRead
  <2>6. CASE AskNext
    BY <2>3, <2>4, <2>5, <2>6, <1>1 DEF AskNext, PagesRead
  <2>7. CASE FindBook
    BY <2>3, <2>4, <2>5, <2>7, <1>1 DEF FindBook, PagesRead
  <2>8. CASE CountRows
    BY <2>2, <2>3, <2>4, <2>5, <2>8, <1>1 DEF CountRows, PagesRead, StillAhead
  <2>9. CASE FindRows
    <3>1. PICK skipped \in SUBSET Rows : \E some \in SUBSET (Rows \ skipped) :
            Selected(skipped, some) /\ items' = some
      BY <2>9 DEF FindRows, Selected
    <3>2. Skip <= Cardinality(Newer(row)) /\ page >= 1
      BY <2>4, <2>9, <1>0 DEF FindRows, PagesRead, Skip, WalkOnTheWay
    <3>3. row \notin items' =>
            page * limit <= Cardinality(Newer(row)) /\ page * limit < Cardinality(Rows)
      BY <3>1, <3>2, <2>2, <2>3, <1>0, NotGiven
    <3>4. PagesRead' * limit <= Cardinality(Newer(row)')
      BY <2>3, <2>4, <2>5, <2>9 DEF FindRows, PagesRead
    <3> QED BY <3>3, <3>4, <2>3, <2>5, <2>9 DEF FindRows
  <2>10. CASE Respond
    <3>1. row \notin items /\ page * limit <= Cardinality(Newer(row)) /\ page * limit < found
      BY <2>2, <2>3, <2>10 DEF Respond, StillAhead
    <3>2. PagesRead' = page
      BY <2>10 DEF Respond, PagesRead
    <3> QED BY <3>1, <3>2, <2>3, <2>5, <2>10 DEF Respond
  <2>11. CASE Fail
    BY <2>3, <2>4, <2>5, <2>11, <1>1 DEF Fail, PagesRead
  <2>12. CASE UNCHANGED walkVars
    BY <2>2, <2>3, <2>4, <2>5, <2>12, <1>1 DEF walkVars, PagesRead, StillAhead
  <2> QED BY <1>3, <2>6, <2>7, <2>8, <2>9, <2>10, <2>11, <2>12
          DEF PagesNext, Tick, BeginUpload, CommitUpload, pagesVars
<1> QED BY <1>2, <1>3

LEMMA PagesNextInv == PagesInv /\ [PagesNext]_pagesVars => PagesInv'
<1> SUFFICES ASSUME PagesInv, [PagesNext]_pagesVars PROVE PagesInv' OBVIOUS
<1>1. \A u \in committed' : createdAt'[u] # 0
  BY DEF PagesInv, PagesTypeOK, PagesNext, Begin, AskNext, FindBook, CountRows, FindRows, Respond,
         Fail, Tick, BeginUpload, CommitUpload, pagesVars, tableVars, walkVars
<1>2. \A row \in begun' \ got' : StillAhead(row)'
  BY StillAheadNext
<1> QED BY <1>1, <1>2, PagesTypeNext, WalkNext DEF PagesInv

LEMMA PagesInvariant == PagesSpec => []PagesInv
BY PagesInitInv, PagesNextInv, PTL DEF PagesSpec

-------------------------------------------------------------------------------
\* Theorem: a page has at most limit rows (coupon-books.service.ts:159-165, take)
\* and the counters of the walk are numbers, whatever is uploaded meanwhile.
THEOREM PagesTypeCorrect == PagesSpec => []PagesTypeOK
<1>1. PagesInv => PagesTypeOK
  BY DEF PagesInv
<1> QED BY <1>1, PagesInvariant, PTL

\* Theorem: hasNextPage is never wrong about a next page, for any uploads that
\* commit between two pages.
THEOREM NextPagesAreThere == PagesSpec => []NextPageIsThere
<1>1. PagesInv => NextPageIsThere
  BY DEF PagesInv
<1> QED BY <1>1, PagesInvariant, PTL

\* Theorem: see NothingIsSkipped; for any number of rows, uploads and pages.
THEOREM PagesSkipNothing == PagesSpec => []NothingIsSkipped
<1>1. PagesInv => NothingIsSkipped
  <2> SUFFICES ASSUME PagesInv, pc = "ended", found <= total, NEW row \in begun, Alone(row),
                      row \notin got
               PROVE  FALSE
    BY DEF NothingIsSkipped
  <2>1. page * limit < found /\ total <= page * limit
    BY DEF PagesInv, StillAhead, WalkOnTheWay
  <2>2. page * limit \in Nat /\ found \in Nat /\ total \in Nat
    <3>1. page \in Nat /\ limit \in Nat
      BY Parameters DEF PagesInv
    <3> QED BY <3>1 DEF PagesInv, PagesTypeOK
  <2> QED BY <2>1, <2>2
<1> QED BY <1>1, PagesInvariant, PTL
===============================================================================
