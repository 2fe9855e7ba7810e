SPECIFICATION FairSpec
CONSTANTS
  Manual = Manual  Pattern = Pattern  Twin = Twin
  c1 = c1  c2 = c2
  Books <- MCBooks
  TitleOf <- MCTitleOf
  PatternBooks <- MCPatternBooks
  MaxCodes <- MCMaxCodes
  NoLimit = NoLimit
  Codes <- MCCodes
  NoBook = NoBook
  Requests = {1, 2, 3}
  Calls <- MCCalls
  Events = {"abort"}
INVARIANTS
  CodesReportedOnce
  TotalCodesTrusted
  ReportedTotalsHold
PROPERTIES
  ImplementsRegistry
  EveryBookCallEnds
CHECK_DEADLOCK FALSE
