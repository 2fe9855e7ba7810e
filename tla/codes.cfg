SPECIFICATION FairGeneratorSpec
CONSTANTS
  NoLimit = NoLimit
  Letters <- MCLetters
  Digits = {"8", "9"}
  LowerOf <- MCLowerOf
  Marks = {"-", "_", "{", "}"}
  AttemptsPerCode = 2
  CodeLengths = {2, 3, 4}
  ColumnLength = 6
  Patterns <- MCPatterns
  Limits = {1, 3, 4, NoLimit}
  Counts = {1, 2, 3}
  Uploads <- MCUploads
  CallBound = 3
INVARIANTS
  CodesTypeOK
  EstimateIsExact
  GeneratedCodesFit
  FoundInAnyCase
PROPERTIES
  GenerationEnds
CHECK_DEADLOCK FALSE
