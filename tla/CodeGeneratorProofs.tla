-------------------------- MODULE CodeGeneratorProofs --------------------------
(***************************************************************************)
(* Proofs about CodeGenerator for every charset, pattern and limit.        *)
(***************************************************************************)
EXTENDS CodeGeneratorProperties, FiniteSetTheorems, SequenceTheorems,
        WellFoundedInduction, TLAPS

\* What holds of a call on its way, and of the book it fills.
CodesInv ==
  /\ CodesTypeOK
  /\ IsFiniteSet(mine) /\ IsFiniteSet(codes)
  /\ GeneratedCodesFit
  /\ pattern = <<>> => mine = {} /\ codes = {} /\ phase = "idle"
  /\ phase # "idle" => wanted <= maxCodes - Cardinality(mine)
  /\ phase = "inserting" => Cardinality(codes) = wanted

\* What the steps use of the constants.
LEMMA Parameters ==
  /\ AttemptsPerCode \in Nat \ {0} /\ CallBound \in Nat
  /\ \A max \in Limits : max # NoLimit => max \in Nat
  /\ \A count \in Counts : count \in Nat \ {0}
BY GeneratorAssumption

LEMMA Products == \A m, n \in Nat : m * n \in Nat
OBVIOUS

LEMMA FiniteCardinalities ==
  ASSUME CodesInv
  PROVE  Cardinality(mine) \in Nat /\ Cardinality(codes) \in Nat
BY FS_CardinalityType DEF CodesInv

LEMMA CodesInitInv == GeneratorInit => CodesInv
<1> SUFFICES ASSUME GeneratorInit PROVE CodesInv
  OBVIOUS
<1> USE FS_EmptySet DEF GeneratorInit
<1>1. CodesTypeOK
  <2>1. 0 * AttemptsPerCode \in Nat
    BY Parameters, Products
  <2> QED BY <2>1, Parameters DEF CodesTypeOK, Phases, Rejected
<1>2. GeneratedCodesFit
  BY DEF GeneratedCodesFit, Rejected
<1> QED BY <1>1, <1>2 DEF CodesInv

LEMMA CreateKeeps ==
  ASSUME CodesInv, NEW p \in Patterns, NEW max \in Limits, CreateCouponBook(p, max)
  PROVE  CodesInv'
<1>1. /\ pattern = <<>> /\ pattern' = p /\ maxCodes' = max
      /\ mine = {} /\ codes = {} /\ phase = "idle"
      /\ UNCHANGED <<mine, others, phase, wanted, codes, attempts, answer, calls>>
  BY DEF CreateCouponBook, CodesInv
<1>2. p # <<>> /\ max \in Nat /\ 5 * max <= 4 * Estimate(p)
  <2>1. max # NoLimit /\ ValidatePattern(p) /\ 5 * max <= 4 * Estimate(p)
    BY DEF CreateCouponBook, ValidateCodePattern
  <2>2. p # <<>>
    BY <2>1 DEF ValidatePattern
  <2> QED BY <2>1, <2>2, Parameters
<1>3. CodesTypeOK'
  BY <1>1, <1>2, FS_EmptySet DEF CodesInv, CodesTypeOK
<1>4. GeneratedCodesFit'
  BY <1>1, <1>2, FS_EmptySet DEF CodesInv, GeneratedCodesFit
<1> QED BY <1>1, <1>2, <1>3, <1>4 DEF CodesInv

LEMMA GenerateKeeps ==
  ASSUME CodesInv, NEW count \in Counts, GenerateCodes(count)
  PROVE  CodesInv'
<1> USE FiniteCardinalities, FS_EmptySet
<1>1. /\ phase = "idle" /\ pattern # <<>> /\ calls < CallBound /\ calls' = calls + 1
      /\ UNCHANGED <<pattern, maxCodes, mine, others>>
      /\ maxCodes \in Nat /\ count \in Nat \ {0}
  BY Parameters DEF GenerateCodes, CodesInv, CodesTypeOK
<1>2. CASE /\ Cardinality(mine) >= maxCodes /\ answer' = Rejected
           /\ UNCHANGED <<phase, wanted, codes, attempts>>
  <2>1. CodesTypeOK'
    <3>1. calls' \in 0 .. CallBound
      BY <1>1, Parameters DEF CodesInv, CodesTypeOK
    <3> QED BY <1>1, <1>2, <3>1 DEF CodesInv, CodesTypeOK, Rejected
  <2>2. GeneratedCodesFit'
    BY <1>1, <1>2 DEF CodesInv, GeneratedCodesFit, Rejected
  <2> QED BY <1>1, <1>2, <2>1, <2>2 DEF CodesInv
<1>3. CASE /\ Cardinality(mine) < maxCodes /\ phase' = "drawing"
           /\ wanted' = CodesToGenerate(Cardinality(mine), count)
           /\ codes' = {} /\ attempts' = 0 /\ UNCHANGED answer
  <2>1. wanted' \in Nat /\ wanted' <= maxCodes - Cardinality(mine)
    BY <1>1, <1>3 DEF CodesToGenerate
  <2>2. CodesTypeOK'
    <3>1. wanted' * AttemptsPerCode \in Nat
      BY <2>1, Parameters, Products
    <3>2. attempts' \in 0 .. wanted' * AttemptsPerCode
      BY <1>3, <3>1
    <3>3. calls' \in 0 .. CallBound
      BY <1>1, Parameters DEF CodesInv, CodesTypeOK
    <3>4. Cardinality(codes') <= wanted' /\ codes' \subseteq Language(pattern')
      BY <1>3, <2>1
    <3> QED BY <1>1, <1>3, <2>1, <3>2, <3>3, <3>4 DEF CodesInv, CodesTypeOK, Phases
  <2>3. GeneratedCodesFit'
    BY <1>1, <1>3 DEF CodesInv, GeneratedCodesFit
  <2> QED BY <1>1, <1>3, <2>1, <2>2, <2>3 DEF CodesInv
<1> QED BY <1>2, <1>3 DEF GenerateCodes

LEMMA DrawKeeps ==
  ASSUME CodesInv, Draw
  PROVE  CodesInv'
<1> USE FiniteCardinalities
<1>1. /\ phase = "drawing" /\ Cardinality(codes) < wanted
      /\ attempts < wanted * AttemptsPerCode /\ attempts' = attempts + 1
      /\ UNCHANGED <<pattern, maxCodes, mine, others, phase, wanted, answer, calls>>
  BY DEF Draw, MoreToDraw
<1>2. PICK code \in Language(pattern) : codes' = codes \cup {code}
  BY DEF Draw
<1>3. /\ IsFiniteSet(codes')
      /\ Cardinality(codes') <= Cardinality(codes) + 1
      /\ Cardinality(codes') \in Nat
  <2>1. IsFiniteSet(codes)
    BY DEF CodesInv
  <2>2. /\ IsFiniteSet(codes \cup {code})
        /\ Cardinality(codes \cup {code})
             = IF code \in codes THEN Cardinality(codes) ELSE Cardinality(codes) + 1
    BY <2>1, FS_AddElement
  <2> QED BY <1>2, <2>2
<1>4. CodesTypeOK'
  <2>1. wanted * AttemptsPerCode \in Nat /\ attempts \in Nat
    BY Parameters, Products DEF CodesInv, CodesTypeOK
  <2>2. attempts' \in 0 .. wanted' * AttemptsPerCode
    BY <1>1, <2>1
  <2> QED BY <1>1, <1>2, <1>3, <2>2 DEF CodesInv, CodesTypeOK
<1>5. GeneratedCodesFit'
  BY <1>1 DEF CodesInv, GeneratedCodesFit
<1> QED BY <1>1, <1>3, <1>4, <1>5 DEF CodesInv, CodesTypeOK

LEMMA EndLoopKeeps ==
  ASSUME CodesInv, EndLoop
  PROVE  CodesInv'
<1> USE FiniteCardinalities
<1>1. /\ phase = "drawing"
      /\ UNCHANGED <<pattern, maxCodes, mine, others, wanted, codes, attempts, calls>>
      /\ wanted \in Nat /\ Cardinality(codes) <= wanted
  BY DEF EndLoop, CodesInv, CodesTypeOK
<1>2. \/ phase' = "idle" /\ answer' = Rejected
      \/ Cardinality(codes) >= wanted /\ phase' = "inserting" /\ answer' = answer
  BY DEF EndLoop
<1>3. CodesTypeOK'
  BY <1>1, <1>2 DEF CodesInv, CodesTypeOK, Phases, Rejected
<1>4. GeneratedCodesFit'
  BY <1>1, <1>2 DEF CodesInv, GeneratedCodesFit, Rejected
<1> QED BY <1>1, <1>2, <1>3, <1>4 DEF CodesInv

LEMMA InsertKeeps ==
  ASSUME CodesInv, InsertCodes
  PROVE  CodesInv'
<1> DEFINE new == codes \ (mine \cup others)
<1> USE FiniteCardinalities
<1>1. /\ phase = "inserting" /\ phase' = "idle" /\ pattern # <<>>
      /\ UNCHANGED <<pattern, maxCodes, others, wanted, codes, attempts, calls>>
      /\ Cardinality(codes) = wanted /\ wanted <= maxCodes - Cardinality(mine)
  BY DEF InsertCodes, CodesInv
<1>2. CASE /\ mine' = mine \cup new
           /\ answer' = [status |-> "ok", uploaded |-> Cardinality(new),
                         duplicates |-> Cardinality(codes \ new)]
  <2>1. /\ IsFiniteSet(new) /\ Cardinality(new) \in Nat /\ Cardinality(new) <= Cardinality(codes)
        /\ IsFiniteSet(codes \ new) /\ Cardinality(codes \ new) \in Nat
    BY FS_Subset, FS_CardinalityType DEF CodesInv
  <2>2. Cardinality(new) + Cardinality(codes \ new) = Cardinality(codes)
    <3> HIDE DEF new
    <3>1. new \cap (codes \ new) = {} /\ new \cup (codes \ new) = codes
      BY DEF new
    <3>2. Cardinality(new \cup (codes \ new))
            = Cardinality(new) + Cardinality(codes \ new) - Cardinality(new \cap (codes \ new))
      BY <2>1, FS_Union
    <3> QED BY <2>1, <3>1, <3>2, FS_EmptySet
  <2>3. /\ IsFiniteSet(mine') /\ Cardinality(mine') \in Nat
        /\ Cardinality(mine') = Cardinality(mine) + Cardinality(new)
    <3>1. mine \cap new = {}
      OBVIOUS
    <3>2. /\ IsFiniteSet(mine \cup new)
          /\ Cardinality(mine \cup new)
               = Cardinality(mine) + Cardinality(new) - Cardinality(mine \cap new)
      BY <2>1, FS_Union DEF CodesInv
    <3>3. Cardinality(mine \cap new) = 0
      BY <3>1, FS_EmptySet
    <3>4. mine' = mine \cup new
      BY <1>2
    <3> HIDE DEF new
    <3> QED BY <2>1, <3>2, <3>3, <3>4
  <2>4. CodesTypeOK'
    BY <1>1, <1>2, <2>1 DEF CodesInv, CodesTypeOK, Phases
  <2>5. GeneratedCodesFit'
    <3>1. mine' \subseteq Language(pattern')
      BY <1>1, <1>2 DEF CodesInv, CodesTypeOK, GeneratedCodesFit
    <3>2. Cardinality(mine') <= maxCodes'
      BY <1>1, <2>1, <2>3 DEF CodesInv, CodesTypeOK
    <3> QED BY <1>1, <1>2, <2>2, <3>1, <3>2 DEF CodesInv, GeneratedCodesFit
  <2> QED BY <1>1, <2>3, <2>4, <2>5 DEF CodesInv
<1>3. CASE answer' = ServerError /\ UNCHANGED mine
  <2>1. CodesTypeOK'
    BY <1>1, <1>3 DEF CodesInv, CodesTypeOK, Phases, ServerError
  <2>2. GeneratedCodesFit'
    BY <1>1, <1>3 DEF CodesInv, GeneratedCodesFit, ServerError
  <2> QED BY <1>1, <1>3, <2>1, <2>2 DEF CodesInv
<1> QED BY <1>2, <1>3 DEF InsertCodes

LEMMA UploadKeeps ==
  ASSUME CodesInv, NEW sent, UploadCode(sent)
  PROVE  CodesInv'
<1>1. UNCHANGED <<pattern, maxCodes, mine, phase, wanted, codes, attempts, answer, calls>>
  BY DEF UploadCode
<1> QED BY <1>1 DEF CodesInv, CodesTypeOK, GeneratedCodesFit

LEMMA CodesStep == CodesInv /\ [GeneratorNext]_generatorVars => CodesInv'
<1> SUFFICES ASSUME CodesInv, [GeneratorNext]_generatorVars PROVE CodesInv'
  OBVIOUS
<1>1. CASE UNCHANGED generatorVars
  BY <1>1 DEF generatorVars, CodesInv, CodesTypeOK, GeneratedCodesFit
<1> QED
  BY <1>1, CreateKeeps, GenerateKeeps, DrawKeeps, EndLoopKeeps, InsertKeeps, UploadKeeps
  DEF GeneratorNext

LEMMA CodesInvariant == GeneratorSpec => []CodesInv
BY CodesInitInv, CodesStep, PTL DEF GeneratorSpec

\* CodesTypeOK is an invariant: the loop never holds more codes than it wants
\* and never draws more often than it may.
THEOREM CodesTypeCorrect == GeneratorSpec => []CodesTypeOK
BY CodesInvariant, PTL DEF CodesInv

\* One call after the other, a book gets codes of its pattern only, never more
\* than its limit (coupon-books.service.ts:246-275), and a call that succeeds
\* has drawn the number of codes it meant to.
THEOREM GenerationFits == GeneratorSpec => []GeneratedCodesFit
BY CodesInvariant, PTL DEF CodesInv

-------------------------------------------------------------------------------
\* Induction over the natural numbers, for a set of them.

LEMMA Least ==
  ASSUME NEW T, T \subseteq Nat, T # {}
  PROVE  \E n \in T : \A m \in T : ~(m < n)
<1> DEFINE R == OpToRel(<, Nat)
<1>1. IsWellFoundedOn(R, Nat)
  BY NatLessThanWellFounded
<1>2. PICK n \in T : \A m \in T : ~ (<<m, n>> \in R)
  <2> HIDE DEF R
  <2> QED BY <1>1, WFMin
<1>3. \A m \in T : <<m, n>> \in R <=> m < n
  BY <1>2 DEF OpToRel
<1> QED BY <1>2, <1>3

LEMMA NatSetInduction ==
  ASSUME NEW S, 0 \in S, \A n \in Nat : n \in S => n + 1 \in S
  PROVE  Nat \subseteq S
<1> SUFFICES ASSUME Nat \ S # {} PROVE FALSE
  OBVIOUS
<1>1. PICK n \in Nat \ S : \A m \in Nat \ S : ~(m < n)
  BY Least, Nat \ S \subseteq Nat
<1>2. n # 0 /\ n - 1 \in Nat /\ n - 1 < n
  OBVIOUS
<1>3. n - 1 \in S
  BY <1>1, <1>2
<1> QED BY <1>2, <1>3


-------------------------------------------------------------------------------
\* FlattenSeq, which is recursive.

FlattensTo(f, w, n) ==
  f = [i \in 1 .. n |-> IF i = 1 THEN w[i] ELSE f[i-1] \o w[i]]

\* The recursive function of FlattenSeq exists, by induction over its domain.
LEMMA FlattenExists ==
  ASSUME NEW w, Len(w) \in Nat
  PROVE  \E f : FlattensTo(f, w, Len(w))
<1> DEFINE S == {n \in Nat : \E f : FlattensTo(f, w, n)}
<1>1. 0 \in S
  <2>1. FlattensTo([i \in 1 .. 0 |-> w[i]], w, 0)
    BY DEF FlattensTo
  <2> QED BY <2>1
<1>2. ASSUME NEW n \in Nat, n \in S PROVE n + 1 \in S
  <2>1. PICK f : FlattensTo(f, w, n)
    BY <1>2
  <2> DEFINE g == [i \in 1 .. n + 1 |-> IF i = 1 THEN w[i] ELSE f[i-1] \o w[i]]
  <2>2. \A i \in 1 .. n : g[i] = f[i]
    <3>1. \A i \in 1 .. n : f[i] = IF i = 1 THEN w[i] ELSE f[i-1] \o w[i]
      BY <2>1, Zenon DEF FlattensTo
    <3> QED BY <3>1
  <2>3. \A i \in 1 .. n + 1 : i # 1 => i - 1 \in 1 .. n
    OBVIOUS
  <2>4. g = [i \in 1 .. n + 1 |-> IF i = 1 THEN w[i] ELSE g[i-1] \o w[i]]
    <3>1. \A i \in 1 .. n + 1 : i # 1 => g[i-1] = f[i-1]
      BY <2>2, <2>3
    <3> QED BY <3>1
  <2>5. FlattensTo(g, w, n + 1)
    <3> HIDE DEF g
    <3> QED BY <2>4 DEF FlattensTo
  <2> QED BY <2>5
<1>3. Nat \subseteq S
  <2> HIDE DEF S
  <2> QED BY <1>1, <1>2, NatSetInduction
<1> QED BY <1>3

\* Sequences of characters of a set, one after the other, have such characters only.
LEMMA FlattenTyped ==
  ASSUME NEW C, NEW w \in Seq(Seq(C))
  PROVE  FlattenSeq(w) \in Seq(C)
<1>1. CASE Len(w) = 0
  <2>1. w = <<>>
    BY <1>1
  <2> QED BY <1>1, <2>1 DEF FlattenSeq
<1>2. CASE Len(w) # 0
  <2> DEFINE f == CHOOSE f : FlattensTo(f, w, Len(w))
             S == {n \in Nat : n \in 1 .. Len(w) => f[n] \in Seq(C)}
  <2>1. FlattenSeq(w) = f[Len(w)]
    BY <1>2 DEF FlattenSeq, FlattensTo
  <2>2. FlattensTo(f, w, Len(w))
    BY FlattenExists, LenProperties, Zenon
  <2>3. 0 \in S
    OBVIOUS
  <2>4. ASSUME NEW n \in Nat, n \in S PROVE n + 1 \in S
    <3> SUFFICES ASSUME n + 1 \in 1 .. Len(w) PROVE f[n + 1] \in Seq(C)
      OBVIOUS
    <3>1. w[n + 1] \in Seq(C)
      OBVIOUS
    <3>2. f[n + 1] = IF n + 1 = 1 THEN w[n + 1] ELSE f[n] \o w[n + 1]
      <4> HIDE DEF f
      <4>1. \A i \in 1 .. Len(w) : f[i] = IF i = 1 THEN w[i] ELSE f[i-1] \o w[i]
        BY <2>2, Zenon DEF FlattensTo
      <4> QED BY <4>1
    <3>3. n # 0 => f[n] \in Seq(C)
      BY <2>4
    <3> HIDE DEF f
    <3>4. n # 0 => f[n] \o w[n + 1] \in Seq(C)
      BY <3>1, <3>3, ConcatProperties
    <3> QED BY <3>1, <3>2, <3>4
  <2>5. Nat \subseteq S
    <3> HIDE DEF S
    <3> QED BY <2>3, <2>4, NatSetInduction
  <2>6. Len(w) \in 1 .. Len(w) /\ Len(w) \in Nat
    BY <1>2, LenProperties
  <2>7. f[Len(w)] \in Seq(C)
    <3> HIDE DEF f
    <3> QED BY <2>5, <2>6
  <2> QED BY <2>1, <2>7
<1> QED BY <1>1, <1>2

-------------------------------------------------------------------------------
\* The spelling of codes.

Spelled == Alphanumeric \cup Marks

LEMMA PatternPieces ==
  ASSUME NEW p \in Patterns, ValidatePattern(p)
  PROVE  /\ p \in Seq(Pieces)
         /\ \A i \in DOMAIN p : p[i] \in Pieces /\ p[i].text \in Seq(Spelled)
<1>1. p \in Seq(Pieces)
  BY GeneratorAssumption
<1>2. ASSUME NEW i \in DOMAIN p PROVE p[i] \in Pieces /\ p[i].text \in Seq(Spelled)
  <2>1. p[i] \in Pieces
    BY <1>1, ElementOfSeq
  <2>2. p[i].text \in Seq(Chars \cup {"*"})
    BY <2>1 DEF Pieces
  <2>3. \A j \in DOMAIN p[i].text : p[i].text[j] \in Spelled
    BY DEF ValidatePattern, Spelled
  <2> QED BY <2>1, <2>2, <2>3
<1> QED BY <1>1, <1>2

\* The two tables of regular expressions match the same pieces, and what one
\* counts is what the other draws from.
LEMMA TablesAgree ==
  /\ DOMAIN Replacements = DOMAIN Matches
  /\ \A kind \in DOMAIN Replacements :
       /\ Replacements[kind] \subseteq Alphanumeric
       /\ IsFiniteSet(Replacements[kind])
       /\ Matches[kind] = Cardinality(Replacements[kind])
<1>1. IsFiniteSet(Letters) /\ IsFiniteSet(Digits) /\ IsFiniteSet(Alphanumeric)
  BY GeneratorAssumption, FS_Union DEF Alphanumeric
<1>2. Letters \subseteq Alphanumeric /\ Digits \subseteq Alphanumeric
  BY DEF Alphanumeric
<1> QED BY <1>1, <1>2 DEF Replacements, Matches

\* What stands for a piece in a code has characters in upper case only.
LEMMA WordsSpelled ==
  ASSUME NEW p \in Patterns, ValidatePattern(p), NEW i \in DOMAIN p
  PROVE  Words(p[i]) \subseteq Seq(Spelled)
<1> DEFINE piece == p[i]
<1>1. piece \in Pieces /\ piece.text \in Seq(Spelled)
  BY PatternPieces
<1> HIDE DEF piece
<1>2. CASE piece.kind \in DOMAIN Replacements
  <2>1. Replacements[piece.kind] \subseteq Spelled
    BY <1>2, TablesAgree DEF Spelled
  <2>2. Len(piece.text) \in Nat
    BY <1>1
  <2>3. [1 .. Len(piece.text) -> Replacements[piece.kind]] \subseteq Seq(Spelled)
    BY <2>1, <2>2
  <2> QED BY <1>2, <2>3 DEF Words, piece
<1>3. CASE piece.kind \notin DOMAIN Replacements /\ piece.kind = "mixed"
  <2>1. <<"{">> \in Seq(Spelled) /\ <<"}">> \in Seq(Spelled)
    <3>1. "{" \in Spelled /\ "}" \in Spelled
      BY GeneratorAssumption DEF Spelled
    <3>2. \A ch \in Spelled : <<ch>> \in Seq(Spelled)
      OBVIOUS
    <3> QED BY <3>1, <3>2, Zenon
  <2>2. <<"{">> \o piece.text \in Seq(Spelled)
    BY <1>1, <2>1, ConcatProperties
  <2>3. <<"{">> \o piece.text \o <<"}">> \in Seq(Spelled)
    BY <2>1, <2>2, ConcatProperties
  <2> QED BY <1>3, <2>3 DEF Words, piece
<1>4. CASE piece.kind \notin DOMAIN Replacements /\ piece.kind # "mixed"
  BY <1>1, <1>4 DEF Words, piece
<1> QED BY <1>2, <1>3, <1>4

LEMMA LanguageSpelled ==
  ASSUME NEW p \in Patterns, ValidatePattern(p)
  PROVE  Language(p) \subseteq Seq(Spelled)
<1> SUFFICES ASSUME NEW w \in [DOMAIN p -> UNION {Words(p[i]) : i \in DOMAIN p}],
                    \A i \in DOMAIN p : w[i] \in Words(p[i])
             PROVE  FlattenSeq(w) \in Seq(Spelled)
  BY DEF Language
<1>1. \A i \in DOMAIN p : w[i] \in Seq(Spelled)
  BY WordsSpelled
<1>2. Len(p) \in Nat /\ DOMAIN p = 1 .. Len(p)
  BY PatternPieces, LenProperties
<1>3. w \in [1 .. Len(p) -> Seq(Spelled)]
  BY <1>1, <1>2
<1>4. w \in Seq(Seq(Spelled))
  <2>1. \A n \in Nat : [1 .. n -> Seq(Spelled)] \subseteq Seq(Seq(Spelled))
    OBVIOUS
  <2> QED BY <1>2, <1>3, <2>1
<1> QED BY <1>4, FlattenTyped

LEMMA UpperKeeps == \A ch \in Spelled : Upper(ch) = ch
BY GeneratorAssumption DEF Upper, Spelled

LEMMA UpperTwice == \A ch \in Chars : Upper(Upper(ch)) = Upper(ch)
<1> TAKE ch \in Chars
<1>1. CASE ch \in LowerCase
  <2>1. \E l \in Letters : LowerOf[l] = ch
    BY <1>1 DEF LowerCase
  <2>2. Upper(ch) = CHOOSE l \in Letters : LowerOf[l] = ch
    BY <1>1 DEF Upper
  <2>3. Upper(ch) \in Letters
    BY <2>1, <2>2
  <2> QED BY <2>3, UpperKeeps DEF Spelled, Alphanumeric
<1>2. CASE ch \notin LowerCase
  BY <1>2 DEF Upper
<1> QED BY <1>1, <1>2

LEMMA NormalizeKeeps == \A code \in Seq(Spelled) : Normalize(code) = code
<1> TAKE code \in Seq(Spelled)
<1>1. \A i \in DOMAIN code : Upper(code[i]) = code[i]
  BY UpperKeeps
<1>2. code = [i \in DOMAIN code |-> code[i]]
  OBVIOUS
<1> QED BY <1>1, <1>2, Zenon DEF Normalize

LEMMA NormalizeTwice == \A code \in Seq(Chars) : Normalize(Normalize(code)) = Normalize(code)
<1> TAKE code \in Seq(Chars)
<1>1. \A i \in DOMAIN code : Upper(Upper(code[i])) = Upper(code[i])
  BY UpperTwice
<1>2. /\ DOMAIN Normalize(code) = DOMAIN code
      /\ \A i \in DOMAIN code : Normalize(code)[i] = Upper(code[i])
  BY DEF Normalize
<1>3. Normalize(Normalize(code)) = [i \in DOMAIN code |-> Upper(Upper(code[i]))]
  BY <1>2, Zenon DEF Normalize
<1>4. Normalize(code) = [i \in DOMAIN code |-> Upper(code[i])]
  BY DEF Normalize
<1> QED BY <1>1, <1>3, <1>4

\* A book has a pattern that was validated, so its codes are spelled in upper case.
SpelledInv ==
  /\ pattern # <<>> => pattern \in Patterns /\ ValidatePattern(pattern)
  /\ FoundInAnyCase

LEMMA SpelledInitInv == GeneratorInit => SpelledInv
BY DEF GeneratorInit, SpelledInv, FoundInAnyCase

LEMMA SpelledStep ==
  CodesInv /\ SpelledInv /\ [GeneratorNext]_generatorVars => SpelledInv'
<1> SUFFICES ASSUME CodesInv, SpelledInv, [GeneratorNext]_generatorVars PROVE SpelledInv'
  OBVIOUS
<1>1. CASE UNCHANGED generatorVars
  BY <1>1 DEF generatorVars, SpelledInv, FoundInAnyCase
<1>2. ASSUME NEW p \in Patterns, NEW max \in Limits, CreateCouponBook(p, max)
      PROVE  SpelledInv'
  BY <1>2 DEF CreateCouponBook, ValidateCodePattern, SpelledInv, FoundInAnyCase
<1>3. ASSUME NEW count \in Counts, GenerateCodes(count) PROVE SpelledInv'
  BY <1>3 DEF GenerateCodes, SpelledInv, FoundInAnyCase
<1>4. CASE Draw
  BY <1>4 DEF Draw, SpelledInv, FoundInAnyCase
<1>5. CASE EndLoop
  BY <1>5 DEF EndLoop, SpelledInv, FoundInAnyCase
<1>6. CASE InsertCodes
  <2>1. phase = "inserting" /\ mine' \subseteq mine \cup codes
        /\ UNCHANGED <<pattern, others>>
    BY <1>6 DEF InsertCodes
  <2>2. pattern \in Patterns /\ ValidatePattern(pattern)
    BY <2>1 DEF CodesInv, SpelledInv
  <2>3. codes \subseteq Seq(Spelled)
    BY <2>2, LanguageSpelled DEF CodesInv, CodesTypeOK
  <2>4. \A code \in codes : Normalize(code) = code
    BY <2>3, NormalizeKeeps
  <2> QED BY <2>1, <2>4 DEF SpelledInv, FoundInAnyCase
<1>7. ASSUME NEW sent \in Uploads, UploadCode(sent) PROVE SpelledInv'
  <2>1. others' \subseteq others \cup {Normalize(sent)} /\ UNCHANGED <<pattern, mine>>
    BY <1>7 DEF UploadCode
  <2>2. Normalize(Normalize(sent)) = Normalize(sent)
    BY NormalizeTwice, GeneratorAssumption
  <2> QED BY <2>1, <2>2 DEF SpelledInv, FoundInAnyCase
<1> QED
  BY <1>1, <1>2, <1>3, <1>4, <1>5, <1>6, <1>7 DEF GeneratorNext

\* The table spells every code, drawn or uploaded, as NormalizeCodePipe spells
\* what clients send, for every alphabet and every pattern that is accepted.
THEOREM CodesAreFoundInAnyCase == GeneratorSpec => []FoundInAnyCase
<1>1. GeneratorSpec => []SpelledInv
  BY SpelledInitInv, SpelledStep, CodesInvariant, PTL DEF GeneratorSpec
<1> QED BY <1>1, PTL DEF SpelledInv

-------------------------------------------------------------------------------
\* The product of a sequence, whose function is recursive.

MultipliesTo(c, factors, m) ==
  c = [n \in 0 .. m |-> IF n = 0 THEN 1 ELSE c[n-1] * factors[n]]

LEMMA ProductExists ==
  ASSUME NEW factors, NEW m \in Nat
  PROVE  \E c : MultipliesTo(c, factors, m)
<1> DEFINE S == {n \in Nat : \E c : MultipliesTo(c, factors, n)}
<1>1. 0 \in S
  <2> DEFINE one == [n \in 0 .. 0 |-> 1]
  <2>1. one = [n \in 0 .. 0 |-> IF n = 0 THEN 1 ELSE one[n-1] * factors[n]]
    OBVIOUS
  <2>2. MultipliesTo(one, factors, 0)
    <3> HIDE DEF one
    <3> QED BY <2>1 DEF MultipliesTo
  <2> QED BY <2>2
<1>2. ASSUME NEW n \in Nat, n \in S PROVE n + 1 \in S
  <2>1. PICK c : MultipliesTo(c, factors, n)
    BY <1>2
  <2> DEFINE d == [i \in 0 .. n + 1 |-> IF i = 0 THEN 1 ELSE c[i-1] * factors[i]]
  <2>2. \A i \in 0 .. n : d[i] = c[i]
    <3>1. \A i \in 0 .. n : c[i] = IF i = 0 THEN 1 ELSE c[i-1] * factors[i]
      BY <2>1, Zenon DEF MultipliesTo
    <3> QED BY <3>1
  <2>3. d = [i \in 0 .. n + 1 |-> IF i = 0 THEN 1 ELSE d[i-1] * factors[i]]
    <3>1. \A i \in 0 .. n + 1 : i # 0 => i - 1 \in 0 .. n
      OBVIOUS
    <3>2. d = [i \in 0 .. n + 1 |-> IF i = 0 THEN 1 ELSE c[i-1] * factors[i]]
      OBVIOUS
    <3> HIDE DEF d
    <3> QED BY <2>2, <3>1, <3>2
  <2>4. MultipliesTo(d, factors, n + 1)
    <3> HIDE DEF d
    <3> QED BY <2>3 DEF MultipliesTo
  <2> QED BY <2>4
<1>3. Nat \subseteq S
  <2> HIDE DEF S
  <2> QED BY <1>1, <1>2, NatSetInduction
<1> QED BY <1>3

\* The steps of the product, to count along.
LEMMA ProductSteps ==
  ASSUME NEW factors, Len(factors) \in Nat
  PROVE  \E c : /\ c[0] = 1 /\ Product(factors) = c[Len(factors)]
                /\ \A n \in 1 .. Len(factors) : c[n] = c[n-1] * factors[n]
<1> DEFINE c == CHOOSE c : MultipliesTo(c, factors, Len(factors))
<1>1. MultipliesTo(c, factors, Len(factors))
  BY ProductExists, Zenon
<1>2. Product(factors) = c[Len(factors)]
  BY DEF Product, MultipliesTo
<1> HIDE DEF c
<1>3. \A n \in 0 .. Len(factors) : c[n] = IF n = 0 THEN 1 ELSE c[n-1] * factors[n]
  BY <1>1, Zenon DEF MultipliesTo
<1>4. /\ c[0] = 1
      /\ \A n \in 1 .. Len(factors) : c[n] = c[n-1] * factors[n]
  BY <1>3
<1> QED BY <1>2, <1>4

-------------------------------------------------------------------------------
\* The estimate of a pattern, and the number of its codes.

\* The ways to choose from each of the first n sets.
Selections(W, U, n) == {w \in [1 .. n -> U] : \A i \in 1 .. n : w[i] \in W[i]}

\* One choice more multiplies by the size of its set.
LEMMA OneChoiceMore ==
  ASSUME NEW W, NEW U, NEW n \in Nat, W[n + 1] \subseteq U,
         IsFiniteSet(Selections(W, U, n)), IsFiniteSet(W[n + 1])
  PROVE  /\ IsFiniteSet(Selections(W, U, n + 1))
         /\ Cardinality(Selections(W, U, n + 1))
              = Cardinality(Selections(W, U, n)) * Cardinality(W[n + 1])
<1> DEFINE S == Selections(W, U, n) \X W[n + 1]
           T == Selections(W, U, n + 1)
           f == [s \in S |-> [i \in 1 .. n + 1 |-> IF i = n + 1 THEN s[2] ELSE s[1][i]]]
<1>1. \A i \in 1 .. n + 1 : i = n + 1 \/ i \in 1 .. n
  OBVIOUS
<1>2. f \in [S -> T]
  <2> SUFFICES ASSUME NEW v \in Selections(W, U, n), NEW x \in W[n + 1]
               PROVE  [i \in 1 .. n + 1 |-> IF i = n + 1 THEN x ELSE v[i]] \in T
    OBVIOUS
  <2>1. \A i \in 1 .. n : v[i] \in U /\ v[i] \in W[i]
    BY DEF Selections
  <2> QED BY <1>1, <2>1 DEF Selections
<1>3. \A s, t \in S : f[s] = f[t] => s = t
  <2> SUFFICES ASSUME NEW v \in Selections(W, U, n), NEW x \in W[n + 1],
                      NEW w \in Selections(W, U, n), NEW y \in W[n + 1],
                      f[<<v, x>>] = f[<<w, y>>]
               PROVE  v = w /\ x = y
    <3>1. \A s \in S : /\ s[1] \in Selections(W, U, n) /\ s[2] \in W[n + 1]
                       /\ s = <<s[1], s[2]>>
      OBVIOUS
    <3> HIDE DEF f, S
    <3> QED BY <3>1
  <2>1. /\ f[<<v, x>>] = [i \in 1 .. n + 1 |-> IF i = n + 1 THEN x ELSE v[i]]
        /\ f[<<w, y>>] = [i \in 1 .. n + 1 |-> IF i = n + 1 THEN y ELSE w[i]]
    <3>1. <<v, x>> \in S /\ <<w, y>> \in S
      OBVIOUS
    <3> HIDE DEF S
    <3>2. /\ f[<<v, x>>] = [i \in 1 .. n + 1 |-> IF i = n + 1 THEN <<v, x>>[2] ELSE <<v, x>>[1][i]]
          /\ f[<<w, y>>] = [i \in 1 .. n + 1 |-> IF i = n + 1 THEN <<w, y>>[2] ELSE <<w, y>>[1][i]]
      BY <3>1, Zenon
    <3> HIDE DEF f
    <3> QED BY <3>2
  <2> DEFINE a == f[<<v, x>>]
             b == f[<<w, y>>]
  <2>2. /\ \A i \in 1 .. n + 1 : a[i] = IF i = n + 1 THEN x ELSE v[i]
        /\ \A i \in 1 .. n + 1 : b[i] = IF i = n + 1 THEN y ELSE w[i]
    <3> HIDE DEF f
    <3> QED BY <2>1, Zenon
  <2>3. a = b
    OBVIOUS
  <2> HIDE DEF a, b
  <2>4. x = y
    <3>1. n + 1 \in 1 .. n + 1
      OBVIOUS
    <3> QED BY <2>2, <2>3, <3>1
  <2>5. \A i \in 1 .. n : v[i] = w[i]
    <3>1. \A i \in 1 .. n : i \in 1 .. n + 1 /\ i # n + 1
      OBVIOUS
    <3> QED BY <2>2, <2>3, <3>1
  <2>6. v = w
    <3>1. v = [i \in 1 .. n |-> v[i]] /\ w = [i \in 1 .. n |-> w[i]]
      BY DEF Selections
    <3> QED BY <2>5, <3>1, Zenon
  <2> QED BY <2>4, <2>6
<1>4. \A w \in T : \E s \in S : f[s] = w
  <2> TAKE w \in T
  <2> DEFINE v == [i \in 1 .. n |-> w[i]]
  <2>1. w \in [1 .. n + 1 -> U] /\ \A i \in 1 .. n + 1 : w[i] \in W[i]
    BY DEF Selections
  <2>2. v \in Selections(W, U, n) /\ w[n + 1] \in W[n + 1]
    BY <2>1 DEF Selections
  <2>3. f[<<v, w[n + 1]>>] = [i \in 1 .. n + 1 |-> IF i = n + 1 THEN w[n + 1] ELSE v[i]]
    <3>1. <<v, w[n + 1]>> \in S
      BY <2>2
    <3> HIDE DEF S
    <3>2. f[<<v, w[n + 1]>>] = [i \in 1 .. n + 1 |->
             IF i = n + 1 THEN <<v, w[n + 1]>>[2] ELSE <<v, w[n + 1]>>[1][i]]
      BY <3>1, Zenon
    <3> HIDE DEF f, v
    <3> QED BY <3>2
  <2>4. [i \in 1 .. n + 1 |-> IF i = n + 1 THEN w[n + 1] ELSE v[i]] = w
    BY <1>1, <2>1
  <2> QED BY <2>2, <2>3, <2>4
<1>5. ExistsBijection(S, T)
  <2> HIDE DEF S, T, f
  <2>1. f \in Bijection(S, T)
    BY <1>2, <1>3, <1>4 DEF Bijection, Injection, Surjection, IsInjective
  <2> QED BY <2>1 DEF ExistsBijection
<1>6. IsFiniteSet(S) /\ Cardinality(S) = Cardinality(Selections(W, U, n)) * Cardinality(W[n + 1])
  BY FS_Product
<1> HIDE DEF S
<1> QED BY <1>5, <1>6, FS_Bijection

LEMMA SelectionsCounted ==
  ASSUME NEW W, NEW U, NEW m \in Nat,
         \A i \in 1 .. m : W[i] \subseteq U /\ IsFiniteSet(W[i]),
         NEW sizes, sizes = [i \in 1 .. m |-> Cardinality(W[i])]
  PROVE  IsFiniteSet(Selections(W, U, m)) /\ Cardinality(Selections(W, U, m)) = Product(sizes)
<1>1. Len(sizes) = m
  OBVIOUS
<1>2. PICK c : /\ c[0] = 1 /\ Product(sizes) = c[m]
               /\ \A n \in 1 .. m : c[n] = c[n-1] * Cardinality(W[n])
  <2>1. \E c : /\ c[0] = 1 /\ Product(sizes) = c[Len(sizes)]
               /\ \A n \in 1 .. Len(sizes) : c[n] = c[n-1] * sizes[n]
    BY <1>1, ProductSteps
  <2> QED BY <1>1, <2>1
<1> DEFINE S == {n \in Nat : n \in 0 .. m => /\ IsFiniteSet(Selections(W, U, n))
                                             /\ Cardinality(Selections(W, U, n)) = c[n]}
<1>3. 0 \in S
  <2>1. Selections(W, U, 0) = {[i \in {} |-> i]}
    <3>1. 1 .. 0 = {}
      OBVIOUS
    <3>2. \A w : w \in [{} -> U] <=> w = [i \in {} |-> i]
      OBVIOUS
    <3>3. Selections(W, U, 0) = [{} -> U]
      BY <3>1, Zenon DEF Selections
    <3> QED BY <3>2, <3>3, Zenon
  <2>2. IsFiniteSet(Selections(W, U, 0)) /\ Cardinality(Selections(W, U, 0)) = 1
    BY <2>1, FS_Singleton
  <2> QED BY <1>2, <2>2
<1>4. ASSUME NEW n \in Nat, n \in S PROVE n + 1 \in S
  <2> SUFFICES ASSUME n + 1 \in 0 .. m
               PROVE  /\ IsFiniteSet(Selections(W, U, n + 1))
                      /\ Cardinality(Selections(W, U, n + 1)) = c[n + 1]
    OBVIOUS
  <2>1. n \in 0 .. m /\ n + 1 \in 1 .. m /\ (n + 1) - 1 = n
    OBVIOUS
  <2>2. IsFiniteSet(Selections(W, U, n)) /\ Cardinality(Selections(W, U, n)) = c[n]
    BY <1>4, <2>1
  <2>3. c[n + 1] = c[n] * Cardinality(W[n + 1])
    BY <1>2, <2>1
  <2>4. W[n + 1] \subseteq U /\ IsFiniteSet(W[n + 1])
    BY <2>1
  <2> QED BY <2>2, <2>3, <2>4, OneChoiceMore
<1>5. Nat \subseteq S
  <2> HIDE DEF S
  <2> QED BY <1>3, <1>4, NatSetInduction
<1>6. m \in S
  BY <1>5
<1> QED BY <1>2, <1>6

\* What stands for a piece has one length, and the ways of a piece are counted.
LEMMA WordsCounted ==
  ASSUME NEW p \in Patterns, ValidatePattern(p), NEW i \in DOMAIN p
  PROVE  /\ IsFiniteSet(Words(p[i])) /\ Cardinality(Words(p[i])) = Ways(p[i])
         /\ \A v, w \in Words(p[i]) : Len(v) = Len(w)
<1> DEFINE piece == p[i]
<1>1. piece.text \in Seq(Spelled)
  BY PatternPieces
<1> HIDE DEF piece
<1>2. CASE piece.kind \in DOMAIN Replacements
  <2> DEFINE C == Replacements[piece.kind]
             W == [j \in 1 .. Len(piece.text) |-> C]
  <2>1. IsFiniteSet(C)
    BY <1>2, TablesAgree
  <2>2. Len(piece.text) \in Nat /\ DOMAIN piece.text = 1 .. Len(piece.text)
    BY <1>1
  <2>3. Words(piece) = Selections(W, C, Len(piece.text))
    <3>1. Words(piece) = [1 .. Len(piece.text) -> C]
      BY <1>2 DEF Words
    <3>2. \A w \in [1 .. Len(piece.text) -> C] : \A j \in 1 .. Len(piece.text) : w[j] \in W[j]
      OBVIOUS
    <3> QED BY <3>1, <3>2 DEF Selections
  <2> DEFINE sizes == [j \in DOMAIN piece.text |-> Cardinality(C)]
  <2>4. sizes = [j \in 1 .. Len(piece.text) |-> Cardinality(W[j])]
    BY <2>2
  <2>5. \A j \in 1 .. Len(piece.text) : W[j] \subseteq C /\ IsFiniteSet(W[j])
    BY <2>1
  <2>6. /\ IsFiniteSet(Selections(W, C, Len(piece.text)))
        /\ Cardinality(Selections(W, C, Len(piece.text))) = Product(sizes)
    <3> HIDE DEF W, C, sizes
    <3> QED BY <2>2, <2>4, <2>5, SelectionsCounted
  <2>7. Ways(piece) = Product(sizes)
    <3>1. piece.kind \in DOMAIN Matches /\ Matches[piece.kind] = Cardinality(C)
      BY <1>2, TablesAgree
    <3> QED BY <3>1 DEF Ways
  <2>8. \A w \in Words(piece) : Len(w) = Len(piece.text)
    BY <1>2, <2>2 DEF Words
  <2> HIDE DEF sizes, W, C
  <2> QED BY <2>3, <2>6, <2>7, <2>8 DEF piece
<1>3. CASE piece.kind \notin DOMAIN Replacements
  <2>1. piece.kind \notin DOMAIN Matches
    BY <1>3, TablesAgree
  <2>2. Ways(piece) = 1 /\ \E word : Words(piece) = {word}
    BY <1>3, <2>1 DEF Ways, Words
  <2> QED BY <2>2, FS_Singleton DEF piece
<1> QED BY <1>2, <1>3

\* Two pairs of words, the first of one length, make the same text only if they
\* are the same.
LEMMA ConcatSplits ==
  ASSUME NEW C, NEW a \in Seq(C), NEW b \in Seq(C), NEW c \in Seq(C), NEW d \in Seq(C),
         Len(a) = Len(b), Len(c) = Len(d), a \o c = b \o d
  PROVE  a = b /\ c = d
<1>1. \A i \in 1 .. Len(a) : (a \o c)[i] = a[i] /\ (b \o d)[i] = b[i]
  OBVIOUS
<1>2. a = b
  BY <1>1
<1>3. \A i \in 1 .. Len(c) : (a \o c)[i + Len(a)] = c[i] /\ (b \o d)[i + Len(b)] = d[i]
  <2> TAKE i \in 1 .. Len(c)
  <2>1. /\ i + Len(a) \in Len(a) + 1 .. Len(a) + Len(c)
        /\ (i + Len(a)) - Len(a) = i
    OBVIOUS
  <2> QED BY <2>1, ConcatProperties
<1>4. c = d
  BY <1>3
<1> QED BY <1>2, <1>4

\* The same, with names that keep sequences out of the induction below.
Joined(a, c) == a \o c
Alike(C, a, b) == a \in Seq(C) /\ b \in Seq(C) /\ Len(a) = Len(b)
AllAlike(C, v, w, m) == \A i \in 1 .. m : Alike(C, v[i], w[i])

LEMMA JoinedSplits ==
  ASSUME NEW C, NEW a, NEW b, NEW c, NEW d, Alike(C, a, b), Alike(C, c, d)
  PROVE  /\ Alike(C, Joined(a, c), Joined(b, d))
         /\ Joined(a, c) = Joined(b, d) => a = b /\ c = d
<1>1. a \in Seq(C) /\ b \in Seq(C) /\ c \in Seq(C) /\ d \in Seq(C)
  BY DEF Alike
<1>2. Len(a) = Len(b) /\ Len(c) = Len(d)
  BY DEF Alike
<1>3. Alike(C, Joined(a, c), Joined(b, d))
  <2>1. a \o c \in Seq(C) /\ Len(a \o c) = Len(a) + Len(c)
    BY <1>1, ConcatProperties
  <2>2. b \o d \in Seq(C) /\ Len(b \o d) = Len(b) + Len(d)
    BY <1>1, ConcatProperties
  <2> QED BY <1>2, <2>1, <2>2, Zenon DEF Alike, Joined
<1>4. ASSUME Joined(a, c) = Joined(b, d) PROVE a = b /\ c = d
  <2>1. a \o c = b \o d
    BY <1>4 DEF Joined
  <2> QED BY <1>1, <1>2, <2>1, ConcatSplits, Zenon
<1> QED BY <1>3, <1>4

\* FlattenSeq is the last value of such a function.
LEMMA FlattenSeqIs ==
  ASSUME NEW w, Len(w) \in Nat, Len(w) # 0
  PROVE  \E f : FlattensTo(f, w, Len(w)) /\ FlattenSeq(w) = f[Len(w)]
<1> DEFINE f == CHOOSE f : FlattensTo(f, w, Len(w))
<1>1. FlattenSeq(w) = f[Len(w)]
  BY DEF FlattenSeq, FlattensTo
<1>2. FlattensTo(f, w, Len(w))
  BY FlattenExists, Zenon
<1> QED BY <1>1, <1>2

\* What has been joined so far is the same only if the words so far are.
LEMMA PrefixesSplit ==
  ASSUME NEW C, NEW m \in Nat, NEW v, NEW w, NEW f, NEW g,
         AllAlike(C, v, w, m),
         FlattensTo(f, v, m), FlattensTo(g, w, m)
  PROVE  \A n \in 1 .. m : f[n] = g[n] => \A i \in 1 .. n : v[i] = w[i]
<1>1. \A i \in 1 .. m : f[i] = IF i = 1 THEN v[i] ELSE Joined(f[i-1], v[i])
  BY Zenon DEF FlattensTo, Joined
<1>2. \A i \in 1 .. m : g[i] = IF i = 1 THEN w[i] ELSE Joined(g[i-1], w[i])
  BY Zenon DEF FlattensTo, Joined
<1> DEFINE Splits(n) == /\ Alike(C, f[n], g[n])
                        /\ f[n] = g[n] => \A i \in 1 .. n : v[i] = w[i]
           S == {n \in Nat : n \in 1 .. m => Splits(n)}
<1>3. 0 \in S
  OBVIOUS
<1>4. ASSUME NEW n \in Nat, n \in S PROVE n + 1 \in S
  <2> SUFFICES ASSUME n + 1 \in 1 .. m PROVE Splits(n + 1)
    OBVIOUS
  <2>1. Alike(C, v[n + 1], w[n + 1])
    BY DEF AllAlike
  <2>2. CASE n = 0
    <3>1. f[n + 1] = v[n + 1] /\ g[n + 1] = w[n + 1]
      BY <1>1, <1>2, <2>2
    <3>2. \A i \in 1 .. n + 1 : i = n + 1
      BY <2>2
    <3> QED BY <2>1, <3>1, <3>2
  <2>3. CASE n # 0
    <3>1. f[n + 1] = Joined(f[n], v[n + 1]) /\ g[n + 1] = Joined(g[n], w[n + 1])
      <4>1. (n + 1) - 1 = n /\ n + 1 # 1
        BY <2>3
      <4> QED BY <1>1, <1>2, <4>1
    <3>2. n \in 1 .. m
      BY <2>3
    <3>3. Splits(n)
      BY <1>4, <3>2
    <3>4. Alike(C, f[n], g[n])
      BY <3>3
    <3> HIDE DEF Splits, S
    <3>5. /\ Alike(C, f[n + 1], g[n + 1])
          /\ f[n + 1] = g[n + 1] => f[n] = g[n] /\ v[n + 1] = w[n + 1]
      BY <2>1, <3>1, <3>4, JoinedSplits
    <3>6. \A i \in 1 .. n + 1 : i \in 1 .. n \/ i = n + 1
      OBVIOUS
    <3>7. f[n + 1] = g[n + 1] => \A i \in 1 .. n + 1 : v[i] = w[i]
      BY <3>3, <3>5, <3>6 DEF Splits
    <3> QED BY <3>5, <3>7 DEF Splits
  <2> QED BY <2>2, <2>3
<1>5. Nat \subseteq S
  <2> HIDE DEF S
  <2> QED BY <1>3, <1>4, NatSetInduction
<1>6. \A n \in 1 .. m : n \in S
  BY <1>5
<1> QED BY <1>6

\* Words of the same lengths make the same code only if they are the same.
LEMMA FlattenSplits ==
  ASSUME NEW C, NEW m \in Nat, m # 0, NEW v, NEW w, Len(v) = m, Len(w) = m,
         AllAlike(C, v, w, m),
         FlattenSeq(v) = FlattenSeq(w)
  PROVE  \A i \in 1 .. m : v[i] = w[i]
<1>1. PICK f : FlattensTo(f, v, m) /\ FlattenSeq(v) = f[m]
  BY FlattenSeqIs
<1>2. PICK g : FlattensTo(g, w, m) /\ FlattenSeq(w) = g[m]
  BY FlattenSeqIs
<1>3. m \in 1 .. m
  OBVIOUS
<1>4. \A n \in 1 .. m : f[n] = g[n] => \A i \in 1 .. n : v[i] = w[i]
  BY <1>1, <1>2, PrefixesSplit
<1> QED BY <1>1, <1>2, <1>3, <1>4, Zenon

\* A pattern that is accepted has as many codes as it is estimated to have.
LEMMA LanguageCounted ==
  ASSUME NEW p \in Patterns, ValidatePattern(p), p # <<>>
  PROVE  Cardinality(Language(p)) = Estimate(p)
<1> DEFINE m == Len(p)
           W == [i \in 1 .. m |-> Words(p[i])]
           U == UNION {Words(p[i]) : i \in DOMAIN p}
           all == Selections(W, U, m)
           sizes == [i \in DOMAIN p |-> Ways(p[i])]
<1>1. m \in Nat /\ DOMAIN p = 1 .. m /\ m # 0
  BY PatternPieces
<1>2. Cardinality(all) = Estimate(p) /\ IsFiniteSet(all)
  <2>1. \A i \in 1 .. m : W[i] \subseteq U /\ IsFiniteSet(W[i])
    BY <1>1, WordsCounted
  <2>2. sizes = [i \in 1 .. m |-> Cardinality(W[i])]
    BY <1>1, WordsCounted
  <2> HIDE DEF W, U, m, sizes
  <2>3. IsFiniteSet(Selections(W, U, m)) /\ Cardinality(Selections(W, U, m)) = Product(sizes)
    BY <1>1, <2>1, <2>2, SelectionsCounted
  <2> QED BY <2>3 DEF Estimate, sizes
<1>3. Language(p) = {FlattenSeq(w) : w \in all}
  <2>1. all = {w \in [DOMAIN p -> U] : \A i \in DOMAIN p : w[i] \in Words(p[i])}
    BY <1>1 DEF Selections
  <2> HIDE DEF all, U
  <2> QED BY <2>1 DEF Language, U
<1>4. \A w \in all : w \in Seq(Seq(Spelled)) /\ Len(w) = m
  <2> TAKE w \in all
  <2>1. w \in [1 .. m -> U] /\ \A i \in 1 .. m : w[i] \in Seq(Spelled)
    BY <1>1, WordsSpelled DEF Selections
  <2>2. w \in [1 .. m -> Seq(Spelled)]
    BY <2>1
  <2> HIDE DEF m, U, all
  <2> QED BY <1>1, <2>2
<1>5. ASSUME NEW v \in all, NEW w \in all, FlattenSeq(v) = FlattenSeq(w)
      PROVE  v = w
  <2>1. \A i \in 1 .. m : v[i] \in Words(p[i]) /\ w[i] \in Words(p[i])
    BY DEF Selections
  <2>2. \A i \in 1 .. m : Len(v[i]) = Len(w[i])
    BY <1>1, <2>1, WordsCounted
  <2>3. AllAlike(Spelled, v, w, m)
    BY <1>1, <2>1, <2>2, WordsSpelled DEF Alike, AllAlike
  <2>4. Len(v) = m /\ Len(w) = m
    BY <1>4
  <2>5. v = [i \in 1 .. m |-> v[i]] /\ w = [i \in 1 .. m |-> w[i]]
    BY DEF Selections
  <2> HIDE DEF all, m
  <2>6. \A i \in 1 .. m : v[i] = w[i]
    BY <1>1, <1>5, <2>3, <2>4, FlattenSplits
  <2> QED BY <2>5, <2>6, Zenon
<1> DEFINE f == [w \in all |-> FlattenSeq(w)]
<1>6. f \in Bijection(all, Language(p))
  <2> HIDE DEF all
  <2>1. f \in [all -> Language(p)]
    BY <1>3
  <2>2. \A v, w \in all : f[v] = f[w] => v = w
    BY <1>5
  <2>3. \A code \in Language(p) : \E w \in all : f[w] = code
    BY <1>3
  <2> HIDE DEF f
  <2> QED BY <2>1, <2>2, <2>3 DEF Bijection, Injection, Surjection, IsInjective
<1>7. ExistsBijection(all, Language(p))
  BY <1>6 DEF ExistsBijection
<1> HIDE DEF all
<1> QED BY <1>2, <1>7, FS_Bijection

\* estimateMaxUniqueCodes counts what generateSingleCode can make of a pattern,
\* although the two read it with regular expressions of their own
\* (code-generator.util.ts:146-177).
THEOREM EstimatesAreExact == GeneratorSpec => []EstimateIsExact
<1>1. GeneratorSpec => []SpelledInv
  BY SpelledInitInv, SpelledStep, CodesInvariant, PTL DEF GeneratorSpec
<1>2. SpelledInv => EstimateIsExact
  BY LanguageCounted DEF SpelledInv, EstimateIsExact
<1> QED BY <1>1, <1>2, PTL
===============================================================================
