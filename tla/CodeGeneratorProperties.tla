------------------------ MODULE CodeGeneratorProperties ------------------------
(***************************************************************************)
(* What the generation of codes must keep true.                            *)
(***************************************************************************)
EXTENDS CodeGenerator

\* Every variable keeps its type.
CodesTypeOK ==
  /\ pattern \in Patterns \cup {<<>>}
  /\ maxCodes \in Nat
  /\ phase \in Phases
  /\ wanted \in Nat /\ attempts \in 0 .. wanted * AttemptsPerCode
  /\ codes \subseteq Language(pattern) /\ Cardinality(codes) <= wanted
  /\ answer \in [status : {"ok", "rejected", "serverError"},
                 uploaded : Nat, duplicates : Nat]
  /\ calls \in 0 .. CallBound

\* estimateMaxUniqueCodes tells how many different codes the pattern has: no two
\* choices of its placeholders give the same code, and what the estimate does
\* not count, such as {X9}, does not vary.
EstimateIsExact ==
  pattern # <<>> => Cardinality(Language(pattern)) = Estimate(pattern)

\* A book has codes of its pattern only and never more than its limit, which
\* leaves a fifth of the pattern unused: calls that do not overlap are never to
\* find more codes than there are.  A call that succeeds has drawn exactly as
\* many different codes as it meant to.
GeneratedCodesFit ==
  /\ mine \subseteq Language(pattern)
  /\ Cardinality(mine) <= maxCodes
  /\ pattern # <<>> => 5 * maxCodes <= 4 * Estimate(pattern)
  /\ answer.status = "ok" /\ phase = "idle" =>
       answer.uploaded + answer.duplicates = wanted

\* The table spells every code in the one way NormalizeCodePipe makes of all its
\* spellings: the code is found however a client writes it, and no two rows
\* have codes that differ in case only.
FoundInAnyCase ==
  \A code \in mine \cup others : Normalize(code) = code

\* The loop ends, even if chance repeats the same code for ever.
GenerationEnds == phase # "idle" ~> phase = "idle"
===============================================================================
