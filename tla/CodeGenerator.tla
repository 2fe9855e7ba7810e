----------------------------- MODULE CodeGenerator -----------------------------
(***************************************************************************)
(* Codes from patterns: validatePattern, estimateMaxUniqueCodes and the    *)
(* loop of CodeGenerator.generateCodes, with the checks that lead up to    *)
(* them in createCouponBook and generateCodes, and the normalisation of    *)
(* codes that clients send.  One book with a pattern, whose codes are      *)
(* generated by one call after the other; CouponBooksService has calls     *)
(* that overlap.  A step of the loop is a step here, but nothing else      *)
(* happens during the loop, which never awaits.                            *)
(***************************************************************************)
EXTENDS Integers, FiniteSets, SequencesExt

CONSTANTS
  Letters,          \* CHARSET_LETTERS
  Digits,           \* CHARSET_DIGITS
  LowerOf,          \* the lower case of each letter
  Marks,            \* - _ { }
  AttemptsPerCode,  \* 10 in the code
  CodeLengths,      \* 6 .. 32 in UploadCodesDto
  ColumnLength,     \* coupons.code is a varchar(32)
  Patterns,         \* the patterns administrators may send
  Limits,           \* and the maxCodes with them, or NoLimit
  NoLimit,
  Counts,           \* the counts they ask for
  Uploads,          \* the codes they send for other books, in any spelling
  CallBound         \* bound: how many times codes are generated

Alphanumeric == Letters \cup Digits
LowerCase == {LowerOf[l] : l \in Letters}
Chars == Alphanumeric \cup LowerCase \cup Marks

\* A pattern is cut into pieces: {XX}, {99}, {**}, a piece in braces that mixes
\* the three, such as {X9}, and the text around them.  text is what is written,
\* without the braces of a placeholder.
Kinds == {"text", "letters", "digits", "alphanumeric", "mixed"}
Pieces == [kind : Kinds, text : Seq(Chars \cup {"*"})]

ASSUME GeneratorAssumption ==
  /\ IsFiniteSet(Letters) /\ IsFiniteSet(Digits) /\ Letters \cap Digits = {}
  /\ DOMAIN LowerOf = Letters /\ LowerCase \cap (Alphanumeric \cup Marks) = {}
  /\ Marks \cap Alphanumeric = {} /\ {"{", "}"} \subseteq Marks
  /\ AttemptsPerCode \in Nat \ {0}
  /\ ColumnLength \in Nat /\ CodeLengths \subseteq 0 .. ColumnLength
  /\ Patterns \subseteq Seq(Pieces)
  /\ Limits \subseteq (Nat \ {0}) \cup {NoLimit} /\ NoLimit \notin Nat
  /\ Counts \subseteq Nat \ {0}
  /\ Uploads \subseteq Seq(Chars)
  /\ CallBound \in Nat

VARIABLES
  pattern,   \* the book's code_pattern, << >> while it does not exist
  maxCodes,  \* its max_codes
  mine,      \* the codes of its rows
  others,    \* the codes of all other rows of coupons
  phase,     \* where generateCodes is
  wanted,    \* toGenerate
  codes,     \* the Set the loop fills
  attempts,  \* the times it has drawn a code
  answer,    \* of the last generateCodes
  calls      \* how many there have been

generatorVars == <<pattern, maxCodes, mine, others, phase, wanted, codes,
                   attempts, answer, calls>>

Phases == {"idle", "drawing", "inserting"}

Rejected == [status |-> "rejected", uploaded |-> 0, duplicates |-> 0]

\* What AllExceptionsFilter answers for an error of the database.
ServerError == [status |-> "serverError", uploaded |-> 0, duplicates |-> 0]

GeneratorInit ==
  /\ pattern = <<>> /\ maxCodes = 0
  /\ mine = {} /\ others = {}
  /\ phase = "idle" /\ wanted = 0 /\ codes = {} /\ attempts = 0
  /\ answer = Rejected /\ calls = 0

-------------------------------------------------------------------------------
\* What a pattern generates.

Upper(ch) == IF ch \in LowerCase THEN CHOOSE l \in Letters : LowerOf[l] = ch ELSE ch

\* CodeNormalizer.normalizeCode
Normalize(code) == [i \in DOMAIN code |-> Upper(code[i])]

\* The regular expressions of generateSingleCode, and what each match becomes:
\* characters of this set, as many as there were between the braces.
Replacements ==
  [letters |-> Letters, digits |-> Digits, alphanumeric |-> Alphanumeric]

\* Nothing in generateSingleCode matches a mixed piece, so it stays as it is,
\* and its braces with it.
Words(piece) ==
  IF piece.kind \in DOMAIN Replacements
  THEN [1 .. Len(piece.text) -> Replacements[piece.kind]]
  ELSE IF piece.kind = "mixed" THEN {<<"{">> \o piece.text \o <<"}">>}
  ELSE {piece.text}

\* Every code the pattern can give.
Language(p) ==
  { FlattenSeq(words) : words \in
      {w \in [DOMAIN p -> UNION {Words(p[i]) : i \in DOMAIN p}] :
         \A i \in DOMAIN p : w[i] \in Words(p[i])} }

\* Slip: matched with the regular expression of validatePattern, which takes
\* {X9} for a placeholder too.
MatchesAsValidated ==
  [letters |-> Cardinality(Letters), digits |-> Cardinality(Digits),
   alphanumeric |-> Cardinality(Alphanumeric), mixed |-> Cardinality(Alphanumeric)]

\* The regular expressions of estimateMaxUniqueCodes, written out again there,
\* and what it counts for each character of a match.
Matches ==
  [letters |-> Cardinality(Letters), digits |-> Cardinality(Digits),
   alphanumeric |-> Cardinality(Alphanumeric)]

\* What combinations is after it was multiplied with each of the factors.
Product(factors) ==
  LET combinations[n \in 0 .. Len(factors)] ==
        IF n = 0 THEN 1 ELSE combinations[n - 1] * factors[n]
  IN  combinations[Len(factors)]

\* The factor a match contributes, a power of the size of its charset; what is
\* not matched contributes none.
Ways(piece) ==
  IF piece.kind \in DOMAIN Matches
  THEN Product([i \in DOMAIN piece.text |-> Matches[piece.kind]])
  ELSE 1

\* estimateMaxUniqueCodes
Estimate(p) == Product([i \in DOMAIN p |-> Ways(p[i])])

\* The DTO's and validatePattern's regular expressions; neither allows a *.
ValidatePattern(p) ==
  /\ \E i \in DOMAIN p : p[i].kind # "text"
  /\ \A i \in DOMAIN p : \A j \in DOMAIN p[i].text :
       p[i].text[j] \in Alphanumeric \cup Marks

\* MAX_PATTERN_USAGE_RATIO is 0.8.
ValidateCodePattern(p, max) ==
  /\ max # NoLimit
  /\ ValidatePattern(p)
  /\ 5 * max <= 4 * Estimate(p)

-------------------------------------------------------------------------------
\* createCouponBook with a pattern

CreateCouponBook(p, max) ==
  /\ pattern = <<>>
  /\ ValidateCodePattern(p, max)
  /\ pattern' = p
  /\ maxCodes' = max
  /\ UNCHANGED <<mine, others, phase, wanted, codes, attempts, answer, calls>>

\* generateCodes, from the count of the book's codes up to the loop

\* Slip: the room left in the book is not looked at.
AsRequested(current, count) == count

\* calculateCodesToGenerate; maxCodes is never null in a book with a pattern.
CodesToGenerate(current, count) ==
  IF count <= maxCodes - current THEN count ELSE maxCodes - current

GenerateCodes(count) ==
  /\ phase = "idle" /\ pattern # <<>> /\ calls < CallBound
  /\ calls' = calls + 1
  /\ \/ /\ Cardinality(mine) >= maxCodes
        /\ answer' = Rejected
        /\ UNCHANGED <<phase, wanted, codes, attempts>>
     \/ /\ Cardinality(mine) < maxCodes
        /\ phase' = "drawing"
        /\ wanted' = CodesToGenerate(Cardinality(mine), count)
        /\ codes' = {} /\ attempts' = 0
        /\ UNCHANGED answer
  /\ UNCHANGED <<pattern, maxCodes, mine, others>>

\* Slip: or for and.
EitherToDraw ==
  /\ phase = "drawing"
  /\ Cardinality(codes) < wanted \/ attempts < wanted * AttemptsPerCode

MoreToDraw ==
  /\ phase = "drawing"
  /\ Cardinality(codes) < wanted /\ attempts < wanted * AttemptsPerCode

\* Once around the loop; crypto.randomInt may return anything in its range.
Draw ==
  /\ MoreToDraw
  /\ \E code \in Language(pattern) : codes' = codes \cup {code}
  /\ attempts' = attempts + 1
  /\ UNCHANGED <<pattern, maxCodes, mine, others, phase, wanted, answer, calls>>

\* Slip: a call that was unlucky starts from the beginning.
StartOver ==
  /\ phase = "drawing" /\ ~MoreToDraw
  /\ \/ /\ Cardinality(codes) < wanted
        /\ codes' = {} /\ attempts' = 0 /\ UNCHANGED phase
     \/ /\ Cardinality(codes) >= wanted
        /\ phase' = "inserting" /\ UNCHANGED <<codes, attempts>>
  /\ UNCHANGED <<pattern, maxCodes, mine, others, wanted, answer, calls>>

\* The loop is over, with as many codes as were wanted or not.
EndLoop ==
  /\ phase = "drawing" /\ ~MoreToDraw
  /\ \/ /\ Cardinality(codes) < wanted
        /\ phase' = "idle" /\ answer' = Rejected
     \/ /\ Cardinality(codes) >= wanted
        /\ phase' = "inserting" /\ UNCHANGED answer
  /\ UNCHANGED <<pattern, maxCodes, mine, others, wanted, codes, attempts, calls>>

\* The transaction of batchInsertCodes: codes of the table are left out.  A code
\* that the column does not hold fails the INSERT, and all of the call with it.
InsertCodes ==
  LET new == codes \ (mine \cup others)
  IN /\ phase = "inserting"
     /\ \/ /\ \A code \in codes : Len(code) <= ColumnLength
           /\ mine' = mine \cup new
           /\ answer' = [status |-> "ok", uploaded |-> Cardinality(new),
                         duplicates |-> Cardinality(codes \ new)]
        \/ /\ \E code \in codes : Len(code) > ColumnLength
           /\ answer' = ServerError
           /\ UNCHANGED mine
     /\ phase' = "idle"
     /\ UNCHANGED <<pattern, maxCodes, others, wanted, codes, attempts, calls>>

\* What UploadCodesDto lets through.
ValidUpload(code) ==
  /\ Len(code) \in CodeLengths
  /\ \A i \in DOMAIN code : code[i] \in (Alphanumeric \cup Marks) \ {"{", "}"}

\* Slip: checked in upper case, stored as sent.
UploadAsSent(sent) ==
  /\ phase # "drawing"
  /\ ValidUpload(Normalize(sent))
  /\ others' = IF sent \in mine THEN others ELSE others \cup {sent}
  /\ UNCHANGED <<pattern, maxCodes, mine, phase, wanted, codes, attempts, answer, calls>>

\* uploadCodes of another book: the DTO puts a code in upper case first.
UploadCode(sent) ==
  LET code == Normalize(sent)
  IN /\ phase # "drawing"
     /\ ValidUpload(code)
     /\ others' = IF code \in mine THEN others ELSE others \cup {code}
     /\ UNCHANGED <<pattern, maxCodes, mine, phase, wanted, codes, attempts, answer, calls>>

GeneratorNext ==
  \/ \E p \in Patterns, max \in Limits : CreateCouponBook(p, max)
  \/ \E count \in Counts : GenerateCodes(count)
  \/ Draw \/ EndLoop \/ InsertCodes
  \/ \E sent \in Uploads : UploadCode(sent)

GeneratorSpec == GeneratorInit /\ [][GeneratorNext]_generatorVars

\* The loop is synchronous, and PostgreSQL answers the INSERT.
FairGeneratorSpec ==
  GeneratorSpec /\ WF_generatorVars(Draw \/ EndLoop \/ InsertCodes)
===============================================================================
